---- MODULE Spec2Model ----
(***************************************************************************)
(* Quest-Forge: the response-interpretation and roll-resolution pipeline.  *)
(*                                                                         *)
(*   responseParser.js  parseResponse / normalizeEvents / applyEvents      *)
(*   dice.js            rollDie / rollWithModifier / parseNotation         *)
(*   rules.js           getModifier / getProficiencyBonus / skills         *)
(*   rollResolver.js    resolveRolls / formatRollSummary /                 *)
(*                      handleRequestedRolls                               *)
(*   ChatPanel.jsx      sendToLLM / handleSend / handleStop                *)
(*   gameReducer.js     gameReducer                                        *)
(*                                                                         *)
(* JavaScript values that can have more than one type are tagged records   *)
(* (field t); a JavaScript string is a sequence of one-character strings;  *)
(* the keys of an object are TLA+ strings.                                 *)
(***************************************************************************)
EXTENDS Integers, Sequences, FiniteSets, TLC

VARIABLES
    state,        \* the reducer's store (GameProvider useReducer)
    stateRef,     \* stateRef.current: the state of the last render
    syncRender,   \* whether a dispatch outside a React event re-renders at once
    pc,           \* where the async flow of handleSend is suspended
    depth,        \* depth of the handleRequestedRolls frame that awaits
    call,         \* the streamMessage request in flight, or NoCall
    calls,        \* every streamMessage request issued since the last send
    dispatched,   \* the actions dispatched by the last step, in order
    console,      \* console output of rollResolver.js since the last send
    settled,      \* how the promise of handleRequestedRolls settled
    sends,        \* number of handleSend runs so far
    inFlight,     \* model calls not yet settled: streamMessage and sendMessage
    lastSummarizedRef,  \* lastSummarizedRef.current
    fn,           \* pure-function checks: the function applied
    inp,          \* pure-function checks: its input
    out           \* pure-function checks: its result

vars == <<state, stateRef, syncRender, pc, depth, call, calls, dispatched,
          console, settled, sends, inFlight, lastSummarizedRef, fn, inp, out>>

loopVars == <<state, stateRef, syncRender, pc, depth, call, calls, dispatched,
              console, settled, sends, inFlight, lastSummarizedRef>>

pureVars == <<fn, inp, out>>

----------------------------------------------------------------------------
(* JavaScript values *)

JNull == [t |-> "null"]
JUndef == [t |-> "undefined"]
JNum(n) == [t |-> "num", n |-> n]
JStr(c) == [t |-> "str", c |-> c]
JBool(b) == [t |-> "bool", b |-> b]
JArr(a) == [t |-> "arr", a |-> a]
JObj(o) == [t |-> "obj", o |-> o]

IsEmptyStr(v) == v.c = <<>>

\* raw.key : undefined when the key is absent
Get(v, k) == IF v.t = "obj" /\ k \in DOMAIN v.o THEN v.o[k] ELSE JUndef

\* Property access throws a TypeError on null and undefined only.
CanRead(v) == v.t \notin {"null", "undefined"}

\* ToBoolean
Truthy(v) ==
    CASE v.t = "null" -> FALSE
      [] v.t = "undefined" -> FALSE
      [] v.t = "num" -> v.n # 0
      [] v.t = "str" -> ~IsEmptyStr(v)
      [] v.t = "bool" -> v.b
      [] OTHER -> TRUE

\* a || b
Or(a, b) == IF Truthy(a) THEN a ELSE b

UpperCase ==
    <<"A", "B", "C", "D", "E", "F", "G", "H", "I", "J", "K", "L", "M",
      "N", "O", "P", "Q", "R", "S", "T", "U", "V", "W", "X", "Y", "Z">>

LowerCase ==
    <<"a", "b", "c", "d", "e", "f", "g", "h", "i", "j", "k", "l", "m",
      "n", "o", "p", "q", "r", "s", "t", "u", "v", "w", "x", "y", "z">>

ToLowerChar(c) ==
    IF \E i \in 1..26 : UpperCase[i] = c
    THEN LowerCase[CHOOSE i \in 1..26 : UpperCase[i] = c]
    ELSE c

\* String.prototype.toLowerCase
ToLowerCase(cs) == [i \in 1..Len(cs) |-> ToLowerChar(cs[i])]

----------------------------------------------------------------------------
(* dice.js *)

Digits == {"0", "1", "2", "3", "4", "5", "6", "7", "8", "9"}

DigitVal(c) ==
    CASE c = "0" -> 0 [] c = "1" -> 1 [] c = "2" -> 2 [] c = "3" -> 3
      [] c = "4" -> 4 [] c = "5" -> 5 [] c = "6" -> 6 [] c = "7" -> 7
      [] c = "8" -> 8 [] c = "9" -> 9

DigitChar(d) ==
    CASE d = 0 -> "0" [] d = 1 -> "1" [] d = 2 -> "2" [] d = 3 -> "3"
      [] d = 4 -> "4" [] d = 5 -> "5" [] d = 6 -> "6" [] d = 7 -> "7"
      [] d = 8 -> "8" [] d = 9 -> "9"

\* parseInt(digits, 10) of a non-empty run of digits
RECURSIVE ParseInt(_)
ParseInt(cs) ==
    IF cs = <<>> THEN 0
    ELSE 10 * ParseInt(SubSeq(cs, 1, Len(cs) - 1)) + DigitVal(cs[Len(cs)])

\* String(n) of a non-negative integer
RECURSIVE NatToStr(_)
NatToStr(n) ==
    IF n < 10 THEN <<DigitChar(n)>>
    ELSE NatToStr(n \div 10) \o <<DigitChar(n % 10)>>

\* String(v)
ToStr(v) ==
    CASE v.t = "str" -> v.c
      [] v.t = "num" -> IF v.n < 0 THEN <<"-">> \o NatToStr(-v.n) ELSE NatToStr(v.n)
      [] v.t = "bool" -> IF v.b THEN <<"t", "r", "u", "e">> ELSE <<"f", "a", "l", "s", "e">>
      [] v.t = "null" -> <<"n", "u", "l", "l">>
      [] OTHER -> <<"[", "o", "b", "j", "e", "c", "t", "]">>

Whitespace == {" ", "\t", "\n"}

\* .replace(/\s+/g, '')
RECURSIVE StripSpace(_)
StripSpace(cs) ==
    IF cs = <<>> THEN <<>>
    ELSE IF Head(cs) \in Whitespace THEN StripSpace(Tail(cs))
    ELSE <<Head(cs)>> \o StripSpace(Tail(cs))

AllDigits(cs) == cs # <<>> /\ \A i \in 1..Len(cs) : cs[i] \in Digits

\* the positions of "d" that split cs as (\d+)d(rest)
DSplits(cs) == {i \in 1..Len(cs) : cs[i] = "d" /\ AllDigits(SubSeq(cs, 1, i - 1))}

\* rest matches (\d+)([+-]\d+)?$
SignPos(rest) == {j \in 1..Len(rest) : rest[j] \in {"+", "-"}}

RestMatches(rest) ==
    \/ AllDigits(rest)
    \/ \E j \in SignPos(rest) :
          /\ AllDigits(SubSeq(rest, 1, j - 1))
          /\ AllDigits(SubSeq(rest, j + 1, Len(rest)))

NotationError == [ok |-> FALSE]

\* parseNotation: ok = FALSE stands for the thrown Error
parseNotation(notation) ==
    LET cs == ToLowerCase(StripSpace(ToStr(notation)))
        ds == DSplits(cs)
    IN  IF ds = {} THEN NotationError
        ELSE LET i == CHOOSE x \in ds : TRUE
                 rest == SubSeq(cs, i + 1, Len(cs))
             IN  IF ~RestMatches(rest) THEN NotationError
                 ELSE LET sp == SignPos(rest)
                          j == IF sp = {} THEN Len(rest) + 1 ELSE CHOOSE x \in sp : TRUE
                          m == IF sp = {} THEN 0 ELSE ParseInt(SubSeq(rest, j + 1, Len(rest)))
                      IN  [ok |-> TRUE,
                           count |-> ParseInt(SubSeq(cs, 1, i - 1)),
                           sides |-> ParseInt(SubSeq(rest, 1, j - 1)),
                           modifier |-> IF sp # {} /\ rest[j] = "-" THEN -m ELSE m]

\* rollDie: u is the Uint32 that crypto.getRandomValues delivered
rollDie(sides, u) == (u % sides) + 1

\* rollDice: the first count values of the random source
rollDice(count, sides, us) == [i \in 1..count |-> rollDie(sides, us[i])]

RECURSIVE Sum(_)
Sum(s) == IF s = <<>> THEN 0 ELSE Head(s) + Sum(Tail(s))

rollWithModifier(count, sides, modifier, description, us) ==
    LET rolls == rollDice(count, sides, us)
        subtotal == Sum(rolls)
    IN  [dice |-> [count |-> count, sides |-> sides],
         rolls |-> rolls,
         subtotal |-> subtotal,
         modifier |-> modifier,
         total |-> subtotal + modifier,
         description |-> description,
         isCritical |-> sides = 20 /\ count = 1 /\ rolls[1] = 20,
         isCritFail |-> sides = 20 /\ count = 1 /\ rolls[1] = 1]

\* rollNotation: ok = FALSE when parseNotation throws
rollNotation(notation, description, us) ==
    LET p == parseNotation(notation)
    IN  IF ~p.ok THEN NotationError
        ELSE [ok |-> TRUE,
              r |-> rollWithModifier(p.count, p.sides, p.modifier, description, us)]

----------------------------------------------------------------------------
(* rules.js *)

\* Math.floor((score - 10) / 2)
getModifier(score) == (score - 10) \div 2

getProficiencyBonus(level) ==
    IF level <= 4 THEN 2
    ELSE IF level <= 8 THEN 3
    ELSE IF level <= 12 THEN 4
    ELSE IF level <= 16 THEN 5
    ELSE 6

getArmorClass(dexMod) == 10 + dexMod

strength == <<"s", "t", "r", "e", "n", "g", "t", "h">>
dexterity == <<"d", "e", "x", "t", "e", "r", "i", "t", "y">>
constitution == <<"c", "o", "n", "s", "t", "i", "t", "u", "t", "i", "o", "n">>
intelligence == <<"i", "n", "t", "e", "l", "l", "i", "g", "e", "n", "c", "e">>
wisdom == <<"w", "i", "s", "d", "o", "m">>
charisma == <<"c", "h", "a", "r", "i", "s", "m", "a">>

acrobatics == <<"a", "c", "r", "o", "b", "a", "t", "i", "c", "s">>
animalHandling ==
    <<"a", "n", "i", "m", "a", "l", "H", "a", "n", "d", "l", "i", "n",
      "g">>
arcana == <<"a", "r", "c", "a", "n", "a">>
athletics == <<"a", "t", "h", "l", "e", "t", "i", "c", "s">>
deception == <<"d", "e", "c", "e", "p", "t", "i", "o", "n">>
history == <<"h", "i", "s", "t", "o", "r", "y">>
insight == <<"i", "n", "s", "i", "g", "h", "t">>
intimidation == <<"i", "n", "t", "i", "m", "i", "d", "a", "t", "i", "o", "n">>
investigation ==
    <<"i", "n", "v", "e", "s", "t", "i", "g", "a", "t", "i", "o", "n">>
medicine == <<"m", "e", "d", "i", "c", "i", "n", "e">>
nature == <<"n", "a", "t", "u", "r", "e">>
perception == <<"p", "e", "r", "c", "e", "p", "t", "i", "o", "n">>
performance == <<"p", "e", "r", "f", "o", "r", "m", "a", "n", "c", "e">>
persuasion == <<"p", "e", "r", "s", "u", "a", "s", "i", "o", "n">>
religion == <<"r", "e", "l", "i", "g", "i", "o", "n">>
sleightOfHand ==
    <<"s", "l", "e", "i", "g", "h", "t", "O", "f", "H", "a", "n", "d">>
stealth == <<"s", "t", "e", "a", "l", "t", "h">>
survival == <<"s", "u", "r", "v", "i", "v", "a", "l">>

SKILL_ABILITIES ==
    (acrobatics :> dexterity)
    @@ (animalHandling :> wisdom)
    @@ (arcana :> intelligence)
    @@ (athletics :> strength)
    @@ (deception :> charisma)
    @@ (history :> intelligence)
    @@ (insight :> wisdom)
    @@ (intimidation :> charisma)
    @@ (investigation :> intelligence)
    @@ (medicine :> wisdom)
    @@ (nature :> intelligence)
    @@ (perception :> wisdom)
    @@ (performance :> charisma)
    @@ (persuasion :> charisma)
    @@ (religion :> intelligence)
    @@ (sleightOfHand :> dexterity)
    @@ (stealth :> dexterity)
    @@ (survival :> wisdom)

getSkillModifier(character, skill) ==
    IF skill \notin DOMAIN SKILL_ABILITIES THEN 0
    ELSE LET abilityMod == getModifier(character.abilityScores[SKILL_ABILITIES[skill]])
             profBonus == getProficiencyBonus(character.level)
         IN  abilityMod + (IF skill \in character.skillProficiencies THEN profBonus ELSE 0)

----------------------------------------------------------------------------
(* responseParser.js: normalizeEvents *)

skill_check == <<"s", "k", "i", "l", "l", "_", "c", "h", "e", "c", "k">>
saving_throw == <<"s", "a", "v", "i", "n", "g", "_", "t", "h", "r", "o", "w">>
attack_roll == <<"a", "t", "t", "a", "c", "k", "_", "r", "o", "l", "l">>
npc_attack == <<"n", "p", "c", "_", "a", "t", "t", "a", "c", "k">>
npc_save == <<"n", "p", "c", "_", "s", "a", "v", "e">>
damage_roll == <<"d", "a", "m", "a", "g", "e", "_", "r", "o", "l", "l">>
attack == <<"a", "t", "t", "a", "c", "k">>
Enemy == <<"E", "n", "e", "m", "y">>
default_notation == <<"1", "d", "4">>

general == <<"g", "e", "n", "e", "r", "a", "l">>
fallen ==
    <<"Y", "o", "u", "r", " ", "c", "h", "a", "r", "a", "c", "t", "e",
      "r", " ", "h", "a", "s", " ", "f", "a", "l", "l", "e", "n", ".">>

IsNumber(v) == v.t = "num"

IsArray(v) == v.t = "arr"

\* typeof raw.key === 'number' ? raw.key : 0
NumberOr0(raw, k) == IF IsNumber(Get(raw, k)) THEN Get(raw, k).n ELSE 0

\* Array.isArray(raw.key) ? raw.key : []
ArrayOrEmpty(raw, k) == IF IsArray(Get(raw, k)) THEN Get(raw, k).a ELSE <<>>

\* the callback of raw.requested_rolls.map
normalizeRoll(r) ==
    [type |-> Or(Get(r, "type"), JStr(skill_check)),
     skill |-> Or(Get(r, "skill"), JNull),
     ability |-> Or(Get(r, "ability"), JNull),
     dc |-> IF IsNumber(Get(r, "dc")) THEN Get(r, "dc").n ELSE 15,
     description |-> Or(Get(r, "description"), JStr(<<>>)),
     attacker |-> Or(Get(r, "attacker"), JNull),
     modifier |-> IF IsNumber(Get(r, "modifier")) THEN Get(r, "modifier") ELSE JNull,
     notation |-> Or(Get(r, "notation"), JNull),
     advantage |-> Truthy(Get(r, "advantage")),
     disadvantage |-> Truthy(Get(r, "disadvantage"))]

\* the callback of raw.world_facts.map
normalizeFact(f) ==
    IF f.t = "str" THEN JObj([fact |-> f, category |-> JStr(general)]) ELSE f

Thrown == [threw |-> TRUE]

\* normalizeEvents: threw = TRUE stands for the TypeError of reading a
\* property of null or undefined
normalizeEvents(raw) ==
    IF ~CanRead(raw) THEN Thrown
    ELSE LET rolls == ArrayOrEmpty(raw, "requested_rolls")
             facts == ArrayOrEmpty(raw, "world_facts")
             death == Get(raw, "player_death")
         IN  IF \E i \in 1..Len(rolls) : ~CanRead(rolls[i]) THEN Thrown
             ELSE [threw |-> FALSE,
                   events |->
                     [requestedRolls |-> [i \in 1..Len(rolls) |-> normalizeRoll(rolls[i])],
                      damageDealt |-> NumberOr0(raw, "damage_dealt"),
                      damageTaken |-> NumberOr0(raw, "damage_taken"),
                      itemsFound |-> ArrayOrEmpty(raw, "items_found"),
                      itemsLost |-> ArrayOrEmpty(raw, "items_lost"),
                      goldFound |-> NumberOr0(raw, "gold_found"),
                      goldLost |-> NumberOr0(raw, "gold_lost"),
                      silverFound |-> NumberOr0(raw, "silver_found"),
                      silverLost |-> NumberOr0(raw, "silver_lost"),
                      copperFound |-> NumberOr0(raw, "copper_found"),
                      copperLost |-> NumberOr0(raw, "copper_lost"),
                      expAwarded |-> NumberOr0(raw, "exp_awarded"),
                      restTaken |-> IF Get(raw, "rest_taken").t = "str"
                                    THEN Get(raw, "rest_taken") ELSE JNull,
                      conditionsGained |-> ArrayOrEmpty(raw, "conditions_gained"),
                      conditionsRemoved |-> ArrayOrEmpty(raw, "conditions_removed"),
                      questUpdates |-> ArrayOrEmpty(raw, "quest_updates"),
                      location |-> Or(Get(raw, "location"), JNull),
                      healing |-> NumberOr0(raw, "healing"),
                      combatStart |-> Or(Get(raw, "combat_start"), JNull),
                      combatEnd |-> Truthy(Get(raw, "combat_end")),
                      enemyUpdates |-> ArrayOrEmpty(raw, "enemy_updates"),
                      addCompanions |-> ArrayOrEmpty(raw, "add_companions"),
                      updateCompanions |-> ArrayOrEmpty(raw, "update_companions"),
                      removeCompanions |-> ArrayOrEmpty(raw, "remove_companions"),
                      worldFacts |-> [i \in 1..Len(facts) |-> normalizeFact(facts[i])],
                      npcUpdates |-> ArrayOrEmpty(raw, "npc_updates"),
                      playerDeath |-> IF Truthy(death)
                                      THEN JObj([description |->
                                                   Or(Get(death, "description"), JStr(fallen))])
                                      ELSE JNull]]

----------------------------------------------------------------------------
(* responseParser.js: the text of a response *)

\* A response is a sequence of tokens: the words of the prose (each a run of
\* characters between white space), the two fence markers, and the tokens of
\* JSON text. Key(name) is the string literal of a member name with its colon.
Word(c) == [k |-> "word", c |-> c]
Punct(p) == [k |-> "punct", p |-> p]
Key(name) == [k |-> "key", name |-> name]
Str(c) == [k |-> "string", c |-> c]
Num(n) == [k |-> "number", n |-> n]
Lit(v) == [k |-> "literal", v |-> v]
Fence(tag) == [k |-> "fence", tag |-> tag]

IsPunct(tk, p) == tk.k = "punct" /\ tk.p = p

SyntaxError == [ok |-> FALSE]

RECURSIVE ParseValue(_, _), ParseMembers(_, _, _), ParseElements(_, _, _)

\* a JSON value that starts at token i: the value and the token after it
ParseValue(ts, i) ==
    IF i > Len(ts) THEN SyntaxError
    ELSE CASE ts[i].k = "string" ->
                [ok |-> TRUE, v |-> JStr(ts[i].c), next |-> i + 1]
           [] ts[i].k = "number" ->
                [ok |-> TRUE, v |-> JNum(ts[i].n), next |-> i + 1]
           [] ts[i].k = "literal" ->
                [ok |-> TRUE,
                 v |-> IF ts[i].v = "null" THEN JNull ELSE JBool(ts[i].v = "true"),
                 next |-> i + 1]
           [] IsPunct(ts[i], "{") ->
                IF i < Len(ts) /\ IsPunct(ts[i + 1], "}")
                THEN [ok |-> TRUE, v |-> JObj(<<>>), next |-> i + 2]
                ELSE ParseMembers(ts, i + 1, <<>>)
           [] IsPunct(ts[i], "[") ->
                IF i < Len(ts) /\ IsPunct(ts[i + 1], "]")
                THEN [ok |-> TRUE, v |-> JArr(<<>>), next |-> i + 2]
                ELSE ParseElements(ts, i + 1, <<>>)
           [] OTHER -> SyntaxError

\* the members of an object from token i on; a repeated name keeps the last value
ParseMembers(ts, i, acc) ==
    IF i > Len(ts) \/ ts[i].k # "key" THEN SyntaxError
    ELSE LET r == ParseValue(ts, i + 1)
         IN  IF ~r.ok \/ r.next > Len(ts) THEN SyntaxError
             ELSE LET obj == (ts[i].name :> r.v) @@ acc
                  IN  IF IsPunct(ts[r.next], "}")
                      THEN [ok |-> TRUE, v |-> JObj(obj), next |-> r.next + 1]
                      ELSE IF IsPunct(ts[r.next], ",")
                      THEN ParseMembers(ts, r.next + 1, obj)
                      ELSE SyntaxError

\* the elements of an array from token i on
ParseElements(ts, i, acc) ==
    LET r == ParseValue(ts, i)
    IN  IF ~r.ok \/ r.next > Len(ts) THEN SyntaxError
        ELSE IF IsPunct(ts[r.next], "]")
        THEN [ok |-> TRUE, v |-> JArr(Append(acc, r.v)), next |-> r.next + 1]
        ELSE IF IsPunct(ts[r.next], ",")
        THEN ParseElements(ts, r.next + 1, Append(acc, r.v))
        ELSE SyntaxError

\* JSON.parse: ok = FALSE stands for the SyntaxError
JSONparse(ts) ==
    LET r == ParseValue(ts, 1)
    IN  IF r.ok /\ r.next = Len(ts) + 1 THEN [ok |-> TRUE, v |-> r.v] ELSE SyntaxError

IsCloser(tk) == IsPunct(tk, "}") \/ IsPunct(tk, "]")

\* str.replace(/,\s*([\}\]])/g, '$1')
RECURSIVE StripTrailingCommas(_)
StripTrailingCommas(ts) ==
    IF ts = <<>> THEN <<>>
    ELSE IF IsPunct(Head(ts), ",") /\ Len(ts) > 1 /\ IsCloser(ts[2])
    THEN StripTrailingCommas(Tail(ts))
    ELSE <<Head(ts)>> \o StripTrailingCommas(Tail(ts))

CountPunct(ts, c) == Cardinality({i \in 1..Len(ts) : IsPunct(ts[i], c)})

Repeat(tk, n) == [i \in 1..n |-> tk]

repairJson(str) ==
    LET repaired == StripTrailingCommas(str)
        openBraces == CountPunct(repaired, "{")
        closeBraces == CountPunct(repaired, "}")
        openBrackets == CountPunct(repaired, "[")
        closeBrackets == CountPunct(repaired, "]")
    IN  repaired
        \o (IF openBrackets > closeBrackets
            THEN Repeat(Punct("]"), openBrackets - closeBrackets) ELSE <<>>)
        \o (IF openBraces > closeBraces
            THEN Repeat(Punct("}"), openBraces - closeBraces) ELSE <<>>)

w_sleight == <<"s", "l", "e", "i", "g", "h", "t">>
w_of == <<"o", "f">>
w_hand == <<"h", "a", "n", "d">>
w_animal == <<"a", "n", "i", "m", "a", "l">>
w_handling == <<"h", "a", "n", "d", "l", "i", "n", "g">>
w_thieves == <<"t", "h", "i", "e", "v", "e", "s">>
w_tools == <<"t", "o", "o", "l", "s">>
w_thieves_q == <<"t", "h", "i", "e", "v", "e", "s", "'">>
initiative == <<"i", "n", "i", "t", "i", "a", "t", "i", "v", "e">>

KNOWN_SKILL_WORDS ==
    <<<<perception>>,
      <<stealth>>,
      <<athletics>>,
      <<acrobatics>>,
      <<investigation>>,
      <<insight>>,
      <<persuasion>>,
      <<deception>>,
      <<intimidation>>,
      <<w_sleight, w_of, w_hand>>,
      <<arcana>>,
      <<history>>,
      <<nature>>,
      <<religion>>,
      <<medicine>>,
      <<survival>>,
      <<w_animal, w_handling>>,
      <<performance>>,
      <<w_thieves, w_tools>>,
      <<w_thieves_q, w_tools>>,
      <<strength>>,
      <<dexterity>>,
      <<constitution>>,
      <<intelligence>>,
      <<wisdom>>,
      <<charisma>>,
      <<attack>>,
      <<initiative>>>>

OUTCOME_KEYWORDS ==
    {<<"y", "o", "u", " ", "s", "u", "c", "c", "e", "e", "d">>,
     <<"y", "o", "u", " ", "f", "a", "i", "l">>,
     <<"y", "o", "u", " ", "h", "i", "t">>,
     <<"y", "o", "u", " ", "m", "i", "s", "s">>,
     <<"m", "i", "s", "s", "e", "s", " ", "y", "o", "u">>,
     <<"s", "t", "r", "i", "k", "e", "s", " ", "t", "r", "u", "e">>,
     <<"y", "o", "u", " ", "m", "a", "n", "a", "g", "e", " ", "t", "o">>,
     <<"y", "o", "u", " ", "l", "a", "n", "d">>,
     <<"y", "o", "u", " ", "s", "l", "a", "y">>,
     <<"y", "o", "u", " ", "k", "i", "l", "l">>,
     <<"f", "a", "l", "l", "s", " ", "d", "e", "a", "d">>,
     <<"y", "o", "u", " ", "s", "p", "o", "t">>,
     <<"y", "o", "u", " ", "n", "o", "t", "i", "c", "e">>,
     <<"y", "o", "u", " ", "f", "i", "n", "d", " ", "t", "h", "e">>,
     <<"c", "r", "i", "t", "i", "c", "a", "l", " ", "h", "i", "t">>,
     <<"y", "o", "u", " ", "s", "u", "c", "c", "e", "s", "s", "f", "u", "l", "l", "y">>,
     <<"y", "o", "u", "r", " ", "a", "t", "t", "a", "c", "k", " ", "l", "a", "n", "d", "s">>,
     <<"y", "o", "u", "r", " ", "b", "l", "o", "w">>,
     <<"y", "o", "u", " ", "s", "t", "r", "i", "k", "e">>}

w_roll == <<"r", "o", "l", "l">>
w_make == <<"m", "a", "k", "e">>
w_attempt == <<"a", "t", "t", "e", "m", "p", "t">>
w_a == <<"a">>
w_an == <<"a", "n">>
w_check == <<"c", "h", "e", "c", "k">>
w_save == <<"s", "a", "v", "e">>
w_saving == <<"s", "a", "v", "i", "n", "g">>
w_throw == <<"t", "h", "r", "o", "w">>
w_dc == <<"d", "c">>
w_difficulty == <<"d", "i", "f", "f", "i", "c", "u", "l", "t", "y">>
w_class == <<"c", "l", "a", "s", "s">>

space == <<" ">>

\* the words joined by single spaces
RECURSIVE Join(_)
Join(ws) ==
    IF ws = <<>> THEN <<>>
    ELSE IF Len(ws) = 1 THEN ws[1]
    ELSE ws[1] \o space \o Join(Tail(ws))

KNOWN_SKILLS == [i \in 1..Len(KNOWN_SKILL_WORDS) |-> Join(KNOWN_SKILL_WORDS[i])]

\* a.includes(b)
Contains(a, b) ==
    \E i \in 1..(Len(a) - Len(b) + 1) : SubSeq(a, i, i + Len(b) - 1) = b

StartsWith(a, b) == Len(b) <= Len(a) /\ SubSeq(a, 1, Len(b)) = b

EndsWith(a, b) == Len(b) <= Len(a) /\ SubSeq(a, Len(a) - Len(b) + 1, Len(a)) = b

\* \w
IsWordChar(c) ==
    \/ c \in Digits \/ c = "_"
    \/ \E i \in 1..26 : c = UpperCase[i] \/ c = LowerCase[i]

\* the characters of a token as the text shows them; JSON syntax is one
\* character that is neither white space nor \w
TokenChars(tk) ==
    CASE tk.k = "word" -> tk.c
      [] tk.k = "string" -> <<"\"">> \o tk.c \o <<"\"">>
      [] tk.k = "number" -> ToStr(JNum(tk.n))
      [] tk.k = "punct" -> <<tk.p>>
      [] OTHER -> <<"\"">>

\* the text of a token sequence
TextOf(ts) == Join([i \in 1..Len(ts) |-> TokenChars(ts[i])])

\* lower-cased characters of the word at i; empty when there is no word at i
LowerAt(ts, i) ==
    IF i >= 1 /\ i <= Len(ts) /\ ts[i].k = "word" THEN ToLowerCase(ts[i].c) ELSE <<>>

\* detectPreNarratedOutcome
detectPreNarratedOutcome(narrative) ==
    LET lower == ToLowerCase(TextOf(narrative))
    IN  \E kw \in OUTCOME_KEYWORDS : Contains(lower, kw)

\* the longest run of digits at the start of cs
RECURSIVE LeadingDigits(_)
LeadingDigits(cs) ==
    IF cs # <<>> /\ Head(cs) \in Digits THEN <<Head(cs)>> \o LeadingDigits(Tail(cs))
    ELSE <<>>

\* cs is (\d+)\b : digits, then the end or a character that is not \w
DigitsThenBoundary(cs) ==
    LET d == LeadingDigits(cs)
    IN  d # <<>> /\ (Len(d) = Len(cs) \/ ~IsWordChar(cs[Len(d) + 1]))

\* cs ends with w and a word boundary precedes that w
EndsWithWord(cs, w) ==
    EndsWith(cs, w) /\ (Len(cs) = Len(w) \/ ~IsWordChar(cs[Len(cs) - Len(w)]))

\* the positions where /\bdc\s*(\d+)\b/ matches, and the digits it captures
DcAt(ts, i) ==
    LET w == LowerAt(ts, i)
        next == LowerAt(ts, i + 1)
        inWord == {j \in 1..Len(w) :
                      /\ EndsWithWord(SubSeq(w, 1, j), w_dc)
                      /\ DigitsThenBoundary(SubSeq(w, j + 1, Len(w)))}
    IN  IF inWord # {}
        THEN LeadingDigits(SubSeq(w, (CHOOSE j \in inWord : \A j2 \in inWord : j <= j2) + 1, Len(w)))
        ELSE IF EndsWithWord(w, w_dc) /\ DigitsThenBoundary(next) THEN LeadingDigits(next)
        ELSE <<>>

\* the same for /difficulty class\s*(\d+)/
DifficultyClassAt(ts, i) ==
    LET w == LowerAt(ts, i)
        c == LowerAt(ts, i + 1)
        next == LowerAt(ts, i + 2)
    IN  IF ~(EndsWith(w, w_difficulty) /\ StartsWith(c, w_class)) THEN <<>>
        ELSE IF Len(c) > Len(w_class) THEN LeadingDigits(SubSeq(c, Len(w_class) + 1, Len(c)))
        ELSE LeadingDigits(next)

FirstWhere(ts, P(_)) ==
    IF \E i \in 1..Len(ts) : P(i)
    THEN CHOOSE i \in 1..Len(ts) : P(i) /\ \A j \in 1..(i - 1) : ~P(j)
    ELSE 0

\* the DC that detectTextRollRequests reads from the text, 15 without one
detectDc(ts) ==
    LET hasDc(i) == DcAt(ts, i) # <<>>
        hasClass(i) == DifficultyClassAt(ts, i) # <<>>
        i1 == FirstWhere(ts, hasDc)
        i2 == FirstWhere(ts, hasClass)
    IN  IF i1 > 0 THEN ParseInt(DcAt(ts, i1))
        ELSE IF i2 > 0 THEN ParseInt(DifficultyClassAt(ts, i2))
        ELSE 15

\* [\w\s']+ : a word of the skill phrase
IsPhraseWord(ts, i) ==
    /\ ts[i].k = "word"
    /\ \A j \in 1..Len(ts[i].c) : IsWordChar(ts[i].c[j]) \/ ts[i].c[j] = "'"

\* the text that (?:check|save|saving throw) matches at word i, empty if none
TerminatorAt(ts, i) ==
    LET w == LowerAt(ts, i)
    IN  IF StartsWith(w, w_check) THEN SubSeq(ts[i].c, 1, Len(w_check))
        ELSE IF StartsWith(w, w_save) THEN SubSeq(ts[i].c, 1, Len(w_save))
        ELSE IF w = w_saving /\ StartsWith(LowerAt(ts, i + 1), w_throw)
        THEN ts[i].c \o space \o SubSeq(ts[i + 1].c, 1, Len(w_throw))
        ELSE <<>>

\* the index of the first known skill that contains, or is contained in, skillRaw
KnownSkillIndex(skillRaw) ==
    LET hit(i) == Contains(skillRaw, KNOWN_SKILLS[i]) \/ Contains(KNOWN_SKILLS[i], skillRaw)
    IN  FirstWhere(KNOWN_SKILLS, hit)

TextRoll(type, skill, dc, description) ==
    JObj([type |-> JStr(type), skill |-> JStr(skill), dc |-> JNum(dc),
          description |-> JStr(description)])

\* pattern 1 from word p on: (roll|make|attempt) (a|an) <skill phrase> <terminator>
RECURSIVE Pattern1(_, _, _)
Pattern1(ts, p, dc) ==
    IF p + 3 > Len(ts) THEN <<>>
    ELSE LET verb == LowerAt(ts, p)
             starts ==
                /\ \E v \in {w_roll, w_make, w_attempt} : EndsWith(verb, v)
                /\ LowerAt(ts, p + 1) \in {w_a, w_an}
             ends(q) ==
                /\ q >= p + 3
                /\ TerminatorAt(ts, q) # <<>>
                /\ \A j \in (p + 2)..(q - 1) : IsPhraseWord(ts, j)
             q == FirstWhere(ts, ends)
         IN  IF ~starts \/ q = 0 THEN Pattern1(ts, p + 1, dc)
             ELSE LET v == CHOOSE x \in {w_roll, w_make, w_attempt} :
                              EndsWith(verb, x) /\ \A y \in {w_roll, w_make, w_attempt} :
                                  EndsWith(verb, y) => Len(y) <= Len(x)
                      verbText == SubSeq(ts[p].c, Len(verb) - Len(v) + 1, Len(verb))
                      phrase == [j \in 1..(q - p - 2) |-> ts[p + 1 + j].c]
                      match0 == Join(<<verbText, ts[p + 1].c>> \o phrase
                                     \o <<TerminatorAt(ts, q)>>)
                      skillRaw == ToLowerCase(Join(phrase))
                      k == KnownSkillIndex(skillRaw)
                      type == IF Contains(ToLowerCase(match0), w_save)
                              THEN saving_throw ELSE skill_check
                      last == IF LowerAt(ts, q) = w_saving THEN q + 1 ELSE q
                  IN  (IF k > 0 THEN <<TextRoll(type, KNOWN_SKILLS[k], dc, match0)>> ELSE <<>>)
                      \o Pattern1(ts, last + 1, dc)

\* a character of a RegExp source built from a skill name: quotes became "."
DotEq(pat, text) ==
    /\ Len(pat) = Len(text)
    /\ \A i \in 1..Len(pat) : pat[i] = text[i] \/ pat[i] \in {"'", "\""}

\* cs ends with the pattern w, and \b holds in front of it
EndsWithPattern(cs, w) ==
    /\ Len(w) <= Len(cs)
    /\ DotEq(w, SubSeq(cs, Len(cs) - Len(w) + 1, Len(cs)))
    /\ (Len(cs) = Len(w) \/ ~IsWordChar(cs[Len(cs) - Len(w)]))

\* skillPattern matches with the skill starting in word p
SkillPatternAt(ts, ws, p) ==
    LET n == Len(ws)
    IN  /\ p + n <= Len(ts)
        /\ EndsWithPattern(LowerAt(ts, p), ws[1])
        /\ \A j \in 2..n : DotEq(ws[j], LowerAt(ts, p + j - 1))
        /\ TerminatorAt(ts, p + n) # <<>>

w_check_dc == <<" ", "c", "h", "e", "c", "k", " ", "(", "D", "C", " ">>

\* pattern 2: the first known skill followed by check, save or saving throw
Pattern2(ts, dc) ==
    LET found(k) == \E p \in 1..Len(ts) : SkillPatternAt(ts, KNOWN_SKILL_WORDS[k], p)
        k == FirstWhere(KNOWN_SKILLS, found)
    IN  IF k = 0 THEN <<>>
        ELSE LET ws == KNOWN_SKILL_WORDS[k]
                 at(p) == SkillPatternAt(ts, ws, p)
                 p == FirstWhere(ts, at)
                 matched == ToLowerCase(Join(<<KNOWN_SKILLS[k], TerminatorAt(ts, p + Len(ws))>>))
                 type == IF Contains(matched, w_save)
                            \/ Contains(matched, Join(<<w_saving, w_throw>>))
                         THEN saving_throw ELSE skill_check
             IN  <<TextRoll(type, KNOWN_SKILLS[k], dc,
                            KNOWN_SKILLS[k] \o w_check_dc \o NatToStr(dc) \o <<")">>)>>

detectTextRollRequests(narrative) ==
    LET dc == detectDc(narrative)
        rolls == Pattern1(narrative, 1, dc)
    IN  IF Len(rolls) = 0 THEN Pattern2(narrative, dc) ELSE rolls

requested_rolls ==
    <<"r", "e", "q", "u", "e", "s", "t", "e", "d", "_", "r", "o", "l", "l", "s">>

IsRequestedRolls(tk) ==
    \/ tk.k = "key" /\ tk.name = "requested_rolls"
    \/ tk.k = "string" /\ tk.c = requested_rolls

\* a match that takes the last json block of the response, not the first
jsonMatch_LastBlock(response) ==
    LET opens(i) == response[i] = Fence("json")
                    /\ \E j \in (i + 1)..Len(response) : response[j].k = "fence"
        starts == {i \in 1..Len(response) : opens(i)}
        i == CHOOSE x \in starts : \A y \in starts : y <= x
        closes(j) == j > i /\ response[j].k = "fence"
        j == FirstWhere(response, closes)
    IN  IF starts = {} THEN [found |-> FALSE]
        ELSE [found |-> TRUE, index |-> i, body |-> SubSeq(response, i + 1, j - 1)]

\* response.match(/```json\s*\n?([\s\S]*?)\n?\s*```/): the first json fence
\* and the nearest fence after it
jsonMatch(response) ==
    LET opens(i) == response[i] = Fence("json")
                    /\ \E j \in (i + 1)..Len(response) : response[j].k = "fence"
        i == FirstWhere(response, opens)
        closes(j) == j > i /\ response[j].k = "fence"
        j == FirstWhere(response, closes)
    IN  IF i = 0 THEN [found |-> FALSE]
        ELSE [found |-> TRUE, index |-> i, body |-> SubSeq(response, i + 1, j - 1)]

\* response.match(/\{[\s\S]*"requested_rolls"[\s\S]*\}/): from the first
\* brace that has the name and a closing brace after it, to the last brace
looseJsonMatch(response) ==
    LET n == Len(response)
        opens(i) == /\ IsPunct(response[i], "{")
                    /\ \E k \in (i + 1)..n : /\ IsRequestedRolls(response[k])
                                             /\ \E j \in (k + 1)..n : IsPunct(response[j], "}")
        i == FirstWhere(response, opens)
        j == CHOOSE x \in 1..n : IsPunct(response[x], "}")
                                 /\ \A y \in (x + 1)..n : ~IsPunct(response[y], "}")
    IN  IF i = 0 THEN [found |-> FALSE]
        ELSE [found |-> TRUE, index |-> i, text |-> SubSeq(response, i, j)]

Parsed(narrative, events, textRollDetected) ==
    [threw |-> FALSE, narrative |-> narrative, events |-> events,
     textRollDetected |-> textRollDetected]

\* a fallback that never runs the text roll detector
parseUnfenced_NoDetector(response) ==
    LET normalized(loose, events) ==
            IF events.threw THEN Parsed(response, JNull, FALSE)
            ELSE Parsed(SubSeq(response, 1, loose.index - 1), events.events, FALSE)
        fallback1(loose, parsed) ==
            IF parsed.ok THEN normalized(loose, normalizeEvents(parsed.v))
            ELSE Parsed(response, JNull, FALSE)
        matched(loose) ==
            IF loose.found THEN fallback1(loose, JSONparse(loose.text))
            ELSE Parsed(response, JNull, FALSE)
    IN  matched(looseJsonMatch(response))

\* the part of parseResponse after a missing fenced block
parseUnfenced(response) ==
    LET fallback2(detectedRolls) ==
            IF Len(detectedRolls) > 0
            THEN Parsed(response,
                        normalizeEvents(JObj([requested_rolls |-> JArr(detectedRolls)])).events,
                        TRUE)
            ELSE Parsed(response, JNull, FALSE)
        normalized(loose, events) ==
            IF events.threw THEN fallback2(detectTextRollRequests(response))
            ELSE Parsed(SubSeq(response, 1, loose.index - 1), events.events, FALSE)
        fallback1(loose, parsed) ==
            IF parsed.ok THEN normalized(loose, normalizeEvents(parsed.v))
            ELSE fallback2(detectTextRollRequests(response))
        matched(loose) ==
            IF loose.found THEN fallback1(loose, JSONparse(loose.text))
            ELSE fallback2(detectTextRollRequests(response))
    IN  matched(looseJsonMatch(response))

\* parseResponse that goes on to the unfenced scan and the text roll detector
\* when the fenced body fails twice
parseResponse_FallsBack(response) ==
    IF response = <<>> THEN Parsed(<<>>, JNull, FALSE)
    ELSE LET normalized(narrative, events) ==
                 IF events.threw THEN Thrown ELSE Parsed(narrative, events.events, FALSE)
             repaired(narrative, second) ==
                 IF second.ok THEN normalized(narrative, normalizeEvents(second.v))
                 ELSE parseUnfenced(response)
             fenced(narrative, body, first) ==
                 IF first.ok THEN normalized(narrative, normalizeEvents(first.v))
                 ELSE repaired(narrative, JSONparse(repairJson(body)))
             matched(m) ==
                 IF ~m.found THEN parseUnfenced(response)
                 ELSE fenced(SubSeq(response, 1, m.index - 1), m.body, JSONparse(m.body))
         IN  matched(jsonMatch(response))

\* parseResponse: threw = TRUE stands for an exception leaving the function
parseResponse(response) ==
    IF response = <<>> THEN Parsed(<<>>, JNull, FALSE)
    ELSE LET normalized(narrative, events) ==
                 IF events.threw THEN Thrown ELSE Parsed(narrative, events.events, FALSE)
             repaired(narrative, second) ==
                 IF second.ok THEN normalized(narrative, normalizeEvents(second.v))
                 ELSE Parsed(response, JNull, FALSE)
             fenced(narrative, body, first) ==
                 IF first.ok THEN normalized(narrative, normalizeEvents(first.v))
                 ELSE repaired(narrative, JSONparse(repairJson(body)))
             matched(m) ==
                 IF ~m.found THEN parseUnfenced(response)
                 ELSE fenced(SubSeq(response, 1, m.index - 1), m.body, JSONparse(m.body))
         IN  matched(jsonMatch(response))

----------------------------------------------------------------------------
(* rollResolver.js *)

MAX_ROLL_DEPTH == 3

ABILITY_NAMES == {strength, dexterity, constitution, intelligence, wisdom, charisma}

NoCharacter == [t |-> "null"]

HasCharacter(character) == character.t # "null"

\* a template string: which template, and the value spliced into it
Text(template, v) == [template |-> template, v |-> v]

NoDetail == <<>>

\* result.advantageDetail = detail
WithDetail(result, detail) ==
    [f \in DOMAIN result \cup {"advantageDetail"} |->
        IF f = "advantageDetail" THEN detail ELSE result[f]]

\* rollWithAdvantage where disadvantage decides when both flags are set
rollWithAdvantage_DisadvantageWins(count, sides, modifier, description, advantage, disadvantage, us) ==
    IF (advantage \/ disadvantage) /\ count = 1 /\ sides = 20
    THEN LET useFirst(r1, r2) == IF ~disadvantage THEN r1.rolls[1] >= r2.rolls[1]
                                 ELSE r1.rolls[1] <= r2.rolls[1]
             detail(r1, r2, kept) ==
                 WithDetail(kept, <<r1.rolls[1], r2.rolls[1], kept.rolls[1]>>)
             keep(r1, r2) == detail(r1, r2, IF useFirst(r1, r2) THEN r1 ELSE r2)
         IN  keep(rollWithModifier(1, 20, modifier, description, us),
                  rollWithModifier(1, 20, modifier, description, Tail(us)))
    ELSE WithDetail(rollWithModifier(count, sides, modifier, description, us), NoDetail)

rollWithAdvantage(count, sides, modifier, description, advantage, disadvantage, us) ==
    IF (advantage \/ disadvantage) /\ count = 1 /\ sides = 20
    THEN LET useFirst(r1, r2) == IF advantage THEN r1.rolls[1] >= r2.rolls[1]
                                 ELSE r1.rolls[1] <= r2.rolls[1]
             detail(r1, r2, kept) ==
                 WithDetail(kept, <<r1.rolls[1], r2.rolls[1], kept.rolls[1]>>)
             keep(r1, r2) == detail(r1, r2, IF useFirst(r1, r2) THEN r1 ELSE r2)
         IN  keep(rollWithModifier(1, 20, modifier, description, us),
                  rollWithModifier(1, 20, modifier, description, Tail(us)))
    ELSE WithDetail(rollWithModifier(count, sides, modifier, description, us), NoDetail)

AddRoll(result) == [type |-> "ADD_ROLL", payload |-> result]

AddMessage(role, content, hidden) ==
    [type |-> "ADD_MESSAGE",
     payload |-> [role |-> role, content |-> content, hidden |-> hidden]]

advLabel(roll) ==
    IF roll.advantage THEN "advantage"
    ELSE IF roll.disadvantage THEN "disadvantage" ELSE ""

\* the visible roll message: the values its template shows
RollMsg(label, roll, dc, result, success) ==
    [template |-> "roll", label |-> label, advLabel |-> advLabel(roll), dc |-> dc,
     total |-> result.total, advantageDetail |-> result.advantageDetail,
     success |-> success,
     natural20 |-> result.isCritical, natural1 |-> result.isCritFail]

Dropped == [dropped |-> TRUE]

IsDropped(r) == "dropped" \in DOMAIN r

\* resolveNpcRoll with the dc of the request ahead of the armor class
resolveNpcRoll_RequestDc(roll, character, rnd) ==
    LET npcMod == IF roll.modifier.t = "null" THEN rnd.k + 2 ELSE roll.modifier.n
        attackLabel == Text("attack", Or(roll.attacker, JStr(Enemy)))
        description == IF Truthy(roll.description) THEN Text("description", roll.description)
                       ELSE attackLabel
        dc == IF roll.dc # 0 THEN roll.dc
              ELSE IF HasCharacter(character) /\ character.armorClass # 0
              THEN character.armorClass ELSE 12
        label == IF Truthy(roll.attacker) THEN Text("'s attack", roll.attacker)
                 ELSE Text("NPC attack", JNull)
        shown == IF Truthy(roll.description) THEN Text("description", roll.description)
                 ELSE label
        rolled(result, success) ==
            [threw |-> FALSE,
             dispatches |-> <<AddRoll(result),
                              AddMessage("system",
                                         RollMsg(shown, roll, dc, result, success), FALSE)>>,
             result |-> [type |-> roll.type,
                         attacker |-> Or(roll.attacker, JStr(Enemy)),
                         dc |-> dc,
                         rolled |-> result.total,
                         success |-> success,
                         description |-> roll.description]]
        outcome(result) == rolled(result, result.total >= dc)
    IN  outcome(rollWithAdvantage(1, 20, npcMod, description,
                                  roll.advantage, roll.disadvantage, rnd.u))

\* resolveNpcRoll that records one ADD_ROLL for each die thrown
resolveNpcRoll_RecordPerDie(roll, character, rnd) ==
    LET npcMod == IF roll.modifier.t = "null" THEN rnd.k + 2 ELSE roll.modifier.n
        attackLabel == Text("attack", Or(roll.attacker, JStr(Enemy)))
        description == IF Truthy(roll.description) THEN Text("description", roll.description)
                       ELSE attackLabel
        dc == IF HasCharacter(character) /\ character.armorClass # 0
              THEN character.armorClass
              ELSE IF roll.dc # 0 THEN roll.dc ELSE 12
        label == IF Truthy(roll.attacker) THEN Text("'s attack", roll.attacker)
                 ELSE Text("NPC attack", JNull)
        shown == IF Truthy(roll.description) THEN Text("description", roll.description)
                 ELSE label
        rolled(result, success) ==
            [threw |-> FALSE,
             dispatches |-> (IF result.advantageDetail = NoDetail THEN <<AddRoll(result)>>
                             ELSE <<AddRoll(result), AddRoll(result)>>)
                            \o <<AddMessage("system",
                                            RollMsg(shown, roll, dc, result, success),
                                            FALSE)>>,
             result |-> [type |-> roll.type,
                         attacker |-> Or(roll.attacker, JStr(Enemy)),
                         dc |-> dc,
                         rolled |-> result.total,
                         success |-> success,
                         description |-> roll.description]]
        outcome(result) == rolled(result, result.total >= dc)
    IN  outcome(rollWithAdvantage(1, 20, npcMod, description,
                                  roll.advantage, roll.disadvantage, rnd.u))

\* rnd.u: the Uint32 values crypto delivers; rnd.k: Math.floor(Math.random() * 3)
resolveNpcRoll(roll, character, rnd) ==
    LET npcMod == IF roll.modifier.t = "null" THEN rnd.k + 2 ELSE roll.modifier.n
        attackLabel == Text("attack", Or(roll.attacker, JStr(Enemy)))
        description == IF Truthy(roll.description) THEN Text("description", roll.description)
                       ELSE attackLabel
        dc == IF HasCharacter(character) /\ character.armorClass # 0
              THEN character.armorClass
              ELSE IF roll.dc # 0 THEN roll.dc ELSE 12
        label == IF Truthy(roll.attacker) THEN Text("'s attack", roll.attacker)
                 ELSE Text("NPC attack", JNull)
        shown == IF Truthy(roll.description) THEN Text("description", roll.description)
                 ELSE label
        rolled(result, success) ==
            [threw |-> FALSE,
             dispatches |-> <<AddRoll(result),
                              AddMessage("system",
                                         RollMsg(shown, roll, dc, result, success), FALSE)>>,
             result |-> [type |-> roll.type,
                         attacker |-> Or(roll.attacker, JStr(Enemy)),
                         dc |-> dc,
                         rolled |-> result.total,
                         success |-> success,
                         description |-> roll.description]]
        outcome(result) == rolled(result, result.total >= dc)
    IN  outcome(rollWithAdvantage(1, 20, npcMod, description,
                                  roll.advantage, roll.disadvantage, rnd.u))

\* resolveDamageRoll without its try/catch
resolveDamageRoll_NoCatch(roll, rnd) ==
    LET description == IF Truthy(roll.description) THEN Text("description", roll.description)
                       ELSE Text("Damage Roll", JNull)
        rollMsg(result) == [template |-> "damage", label |-> result.description,
                            notation |-> roll.notation,
                            total |-> result.total, dice |-> result.rolls,
                            modifier |-> result.modifier]
        outcome(rolled) ==
            IF ~rolled.ok
            THEN [threw |-> TRUE, dispatches |-> <<>>, result |-> Dropped]
            ELSE [threw |-> FALSE,
                  dispatches |-> <<AddRoll(rolled.r),
                                   AddMessage("system", rollMsg(rolled.r), FALSE)>>,
                  result |-> [type |-> JStr(damage_roll),
                              notation |-> roll.notation,
                              rolled |-> rolled.r.total,
                              description |-> rolled.r.description,
                              success |-> TRUE]]
    IN  outcome(rollNotation(Or(roll.notation, JStr(default_notation)), description, rnd.u))

resolveDamageRoll(roll, rnd) ==
    LET description == IF Truthy(roll.description) THEN Text("description", roll.description)
                       ELSE Text("Damage Roll", JNull)
        rollMsg(result) == [template |-> "damage", label |-> result.description,
                            notation |-> roll.notation,
                            total |-> result.total, dice |-> result.rolls,
                            modifier |-> result.modifier]
        outcome(rolled) ==
            IF ~rolled.ok
            THEN [threw |-> FALSE, dispatches |-> <<>>, result |-> Dropped]
            ELSE [threw |-> FALSE,
                  dispatches |-> <<AddRoll(rolled.r),
                                   AddMessage("system", rollMsg(rolled.r), FALSE)>>,
                  result |-> [type |-> JStr(damage_roll),
                              notation |-> roll.notation,
                              rolled |-> rolled.r.total,
                              description |-> rolled.r.description,
                              success |-> TRUE]]
    IN  outcome(rollNotation(Or(roll.notation, JStr(default_notation)), description, rnd.u))

\* resolvePlayerRoll where a name that is no skill, no ability and not
\* "attack" ends the batch with an exception
resolvePlayerRoll_UnknownSkillThrows(roll, character, rnd) ==
    IF ~(roll.skill.t = "str")
       \/ ToLowerCase(roll.skill.c) \notin
             (DOMAIN SKILL_ABILITIES) \cup ABILITY_NAMES \cup {attack}
    THEN [threw |-> TRUE, dispatches |-> <<>>, result |-> Dropped]
    ELSE
    LET skillName == ToLowerCase(roll.skill.c)
        ability == skillName \in DOMAIN SKILL_ABILITIES
        isAbilityName == skillName \in ABILITY_NAMES
        isAttackRoll == roll.type = JStr(attack_roll)
        described == Truthy(roll.description)
        custom == Text("description", roll.description)
        check == Text("check", JStr(skillName))
        mod == IF ability THEN getSkillModifier(character, skillName)
               ELSE IF isAbilityName
               THEN getModifier(character.abilityScores[skillName])
                    + (IF isAttackRoll THEN getProficiencyBonus(character.level) ELSE 0)
               ELSE IF skillName = attack
               THEN LET strMod == getModifier(character.abilityScores[strength])
                        dexMod == getModifier(character.abilityScores[dexterity])
                    IN  (IF strMod >= dexMod THEN strMod ELSE dexMod)
                        + getProficiencyBonus(character.level)
               ELSE 0
        label == IF described THEN custom
                 ELSE IF ability THEN check
                 ELSE IF isAbilityName
                 THEN (IF isAttackRoll THEN Text("attack", JStr(skillName)) ELSE check)
                 ELSE IF skillName = attack THEN Text("Attack roll", JNull)
                 ELSE check
        rolled(result, success) ==
            [threw |-> FALSE,
             dispatches |-> <<AddRoll(result),
                              AddMessage("system",
                                         RollMsg(label, roll, roll.dc, result, success),
                                         FALSE)>>,
             result |-> [type |-> Or(roll.type, JStr(skill_check)),
                         skill |-> roll.skill,
                         dc |-> roll.dc,
                         rolled |-> result.total,
                         success |-> success,
                         description |-> roll.description]]
        outcome(result) ==
            rolled(result, result.total >= (IF roll.dc # 0 THEN roll.dc ELSE 15))
    IN  outcome(rollWithAdvantage(1, 20, mod, label,
                                  roll.advantage, roll.disadvantage, rnd.u))

\* threw: roll.skill.toLowerCase is not a function
resolvePlayerRoll(roll, character, rnd) ==
    IF ~(roll.skill.t = "str")
    THEN [threw |-> TRUE, dispatches |-> <<>>, result |-> Dropped]
    ELSE
    LET skillName == ToLowerCase(roll.skill.c)
        ability == skillName \in DOMAIN SKILL_ABILITIES
        isAbilityName == skillName \in ABILITY_NAMES
        isAttackRoll == roll.type = JStr(attack_roll)
        described == Truthy(roll.description)
        custom == Text("description", roll.description)
        check == Text("check", JStr(skillName))
        mod == IF ability THEN getSkillModifier(character, skillName)
               ELSE IF isAbilityName
               THEN getModifier(character.abilityScores[skillName])
                    + (IF isAttackRoll THEN getProficiencyBonus(character.level) ELSE 0)
               ELSE IF skillName = attack
               THEN LET strMod == getModifier(character.abilityScores[strength])
                        dexMod == getModifier(character.abilityScores[dexterity])
                    IN  (IF strMod >= dexMod THEN strMod ELSE dexMod)
                        + getProficiencyBonus(character.level)
               ELSE 0
        label == IF described THEN custom
                 ELSE IF ability THEN check
                 ELSE IF isAbilityName
                 THEN (IF isAttackRoll THEN Text("attack", JStr(skillName)) ELSE check)
                 ELSE IF skillName = attack THEN Text("Attack roll", JNull)
                 ELSE check
        rolled(result, success) ==
            [threw |-> FALSE,
             dispatches |-> <<AddRoll(result),
                              AddMessage("system",
                                         RollMsg(label, roll, roll.dc, result, success),
                                         FALSE)>>,
             result |-> [type |-> Or(roll.type, JStr(skill_check)),
                         skill |-> roll.skill,
                         dc |-> roll.dc,
                         rolled |-> result.total,
                         success |-> success,
                         description |-> roll.description]]
        outcome(result) ==
            rolled(result, result.total >= (IF roll.dc # 0 THEN roll.dc ELSE 15))
    IN  outcome(rollWithAdvantage(1, 20, mod, label,
                                  roll.advantage, roll.disadvantage, rnd.u))

\* one iteration of the loop of resolveRolls
resolveOne(roll, character, rnd) ==
    IF roll.type \in {JStr(npc_attack), JStr(npc_save)}
    THEN resolveNpcRoll(roll, character, rnd)
    ELSE IF roll.type = JStr(damage_roll)
    THEN resolveDamageRoll(roll, rnd)
    ELSE IF Truthy(roll.skill) /\ HasCharacter(character)
    THEN resolvePlayerRoll(roll, character, rnd)
    ELSE [threw |-> FALSE, dispatches |-> <<>>, result |-> Dropped]

\* resolveRolls: the results, the actions dispatched on the way, and whether
\* an exception ended the loop early
RECURSIVE resolveRolls(_, _, _)
resolveRolls(requestedRolls, character, rnds) ==
    IF requestedRolls = <<>>
    THEN [threw |-> FALSE, dispatches |-> <<>>, rollResults |-> <<>>]
    ELSE LET both(one, rest) ==
                 [threw |-> rest.threw,
                  dispatches |-> one.dispatches \o rest.dispatches,
                  rollResults |-> (IF IsDropped(one.result) THEN <<>>
                                   ELSE <<one.result>>) \o rest.rollResults]
             after(one) ==
                 IF one.threw
                 THEN [threw |-> TRUE, dispatches |-> one.dispatches, rollResults |-> <<>>]
                 ELSE both(one, resolveRolls(Tail(requestedRolls), character, Tail(rnds)))
         IN  after(resolveOne(Head(requestedRolls), character, Head(rnds)))

\* one line of the summary: the values its template shows
summaryLine(r) ==
    IF r.type \in {JStr(npc_attack), JStr(npc_save)}
    THEN [template |-> "vs AC",
          description |-> IF Truthy(r.description) THEN Text("description", r.description)
                          ELSE Text("attack", r.attacker),
          dc |-> r.dc, rolled |-> r.rolled,
          outcome |-> IF r.success THEN "HIT" ELSE "MISS"]
    ELSE IF r.type = JStr(damage_roll)
    THEN [template |-> "total damage",
          description |-> r.description,
          notation |-> r.notation, rolled |-> r.rolled]
    ELSE [template |-> "DC",
          description |-> IF Truthy(r.description) THEN Text("description", r.description)
                          ELSE Text("check", r.skill),
          dc |-> r.dc, rolled |-> r.rolled,
          outcome |-> IF r.success THEN "SUCCESS" ELSE "FAILURE"]

\* formatRollSummary with the lines in reverse order
formatRollSummary_Reversed(rollResults) ==
    [i \in 1..Len(rollResults) |-> summaryLine(rollResults[Len(rollResults) + 1 - i])]

formatRollSummary(rollResults) ==
    [i \in 1..Len(rollResults) |-> summaryLine(rollResults[i])]

----------------------------------------------------------------------------
(* responseParser.js: applyEvents *)

short == <<"s", "h", "o", "r", "t">>
long == <<"l", "o", "n", "g">>
new == <<"n", "e", "w">>
completed == <<"c", "o", "m", "p", "l", "e", "t", "e", "d">>

Action(type, payload) == [type |-> type, payload |-> payload]

\* if (n > 0) dispatch({ type, payload: n })
IfPositive(type, n) == IF n > 0 THEN <<Action(type, n)>> ELSE <<>>

\* for (const x of xs) dispatch({ type, payload: x })
ForEach(type, xs) == [i \in 1..Len(xs) |-> Action(type, xs[i])]

\* the body of the loop over events.questUpdates
questDispatch(quest) ==
    IF Get(quest, "status") = JStr(new)
    THEN <<Action("ADD_QUEST", [name |-> Get(quest, "name"),
                               description |-> Get(quest, "description")])>>
    ELSE IF Get(quest, "status") = JStr(completed) /\ Truthy(Get(quest, "id"))
    THEN <<Action("COMPLETE_QUEST", Get(quest, "id"))>>
    ELSE <<>>

RECURSIVE questDispatches(_)
questDispatches(quests) ==
    IF quests = <<>> \/ ~CanRead(Head(quests)) THEN <<>>
    ELSE questDispatch(Head(quests)) \o questDispatches(Tail(quests))

\* applyEvents: the actions dispatched, in order; threw = TRUE stands for the
\* TypeError of quest.status on a null entry, which ends the function there
applyEvents(events) ==
    IF events = JNull THEN [threw |-> FALSE, dispatches |-> <<>>]
    ELSE LET nullQuest == \E i \in 1..Len(events.questUpdates) :
                              ~CanRead(events.questUpdates[i])
             upToQuests ==
                 IfPositive("TAKE_DAMAGE", events.damageTaken)
                 \o IfPositive("HEAL", events.healing)
                 \o [i \in 1..Len(events.itemsFound) |->
                       Action("ADD_ITEM",
                              IF events.itemsFound[i].t = "str"
                              THEN JObj([name |-> events.itemsFound[i]])
                              ELSE events.itemsFound[i])]
                 \o IfPositive("ADD_GOLD", events.goldFound)
                 \o IfPositive("REMOVE_GOLD", events.goldLost)
                 \o IfPositive("ADD_SILVER", events.silverFound)
                 \o IfPositive("REMOVE_SILVER", events.silverLost)
                 \o IfPositive("ADD_COPPER", events.copperFound)
                 \o IfPositive("REMOVE_COPPER", events.copperLost)
                 \o IfPositive("ADD_EXP", events.expAwarded)
                 \o (IF events.restTaken \in {JStr(short), JStr(long)}
                     THEN <<Action("TAKE_REST", events.restTaken)>> ELSE <<>>)
                 \o ForEach("ADD_CONDITION", events.conditionsGained)
                 \o ForEach("REMOVE_CONDITION", events.conditionsRemoved)
                 \o questDispatches(events.questUpdates)
             afterQuests ==
                 (IF Truthy(events.combatStart)
                  THEN <<Action("START_COMBAT", events.combatStart)>> ELSE <<>>)
                 \o (IF events.combatEnd THEN <<Action("END_COMBAT", JUndef)>> ELSE <<>>)
                 \o ForEach("UPDATE_ENEMY", events.enemyUpdates)
                 \o ForEach("ADD_COMPANION", events.addCompanions)
                 \o ForEach("UPDATE_COMPANION", events.updateCompanions)
                 \o ForEach("REMOVE_COMPANION", events.removeCompanions)
                 \o (IF Len(events.worldFacts) > 0
                     THEN <<Action("ADD_WORLD_FACTS", events.worldFacts)>> ELSE <<>>)
                 \o ForEach("UPDATE_NPC", events.npcUpdates)
                 \o (IF Truthy(events.playerDeath)
                     THEN <<AddMessage("system",
                                       [template |-> "death",
                                        description |-> events.playerDeath.o.description],
                                       FALSE),
                            Action("UPDATE_CHARACTER", [currentHP |-> 0, isDead |-> TRUE])>>
                     ELSE <<>>)
         IN  IF nullQuest THEN [threw |-> TRUE, dispatches |-> upToQuests]
             ELSE [threw |-> FALSE, dispatches |-> upToQuests \o afterQuests]

----------------------------------------------------------------------------
(* characterUtils.js, gameReducer.js *)

\* createCharacter: the fields the pipeline reads
createCharacter(abilityScores, skillProficiencies) ==
    [t |-> "character",
     level |-> 1,
     abilityScores |-> abilityScores,
     armorClass |-> getArmorClass(getModifier(abilityScores[dexterity])),
     skillProficiencies |-> skillProficiencies]

initialGameState ==
    [character |-> NoCharacter,
     messages |-> <<>>,
     rollHistory |-> <<>>,
     ui |-> [isLoading |-> FALSE]]

\* gameReducer whose TAKE_DAMAGE does not stop at 0
gameReducer_NoFloor(st, action) ==
    CASE action.type = "SET_CHARACTER" -> [st EXCEPT !.character = action.payload]
      [] action.type = "ADD_MESSAGE" ->
            [st EXCEPT !.messages = Append(st.messages, action.payload)]
      [] action.type = "ADD_ROLL" ->
            [st EXCEPT !.rollHistory = Append(st.rollHistory, action.payload)]
      [] action.type = "SET_UI" ->
            [st EXCEPT !.ui = [f \in DOMAIN st.ui |->
                                 IF f \in DOMAIN action.payload
                                 THEN action.payload[f] ELSE st.ui[f]]]
      [] action.type = "UPDATE_CHARACTER" ->
            [st EXCEPT !.character =
                [f \in DOMAIN st.character \cup DOMAIN action.payload |->
                    IF f \in DOMAIN action.payload
                    THEN action.payload[f] ELSE st.character[f]]]
      [] action.type = "TAKE_DAMAGE" ->
            LET newHP == st.character.currentHP - action.payload
            IN  [st EXCEPT !.character.currentHP = newHP]
      [] action.type = "HEAL" ->
            LET healed == IF st.character.currentHP + action.payload <= st.character.maxHP
                          THEN st.character.currentHP + action.payload
                          ELSE st.character.maxHP
            IN  [st EXCEPT !.character.currentHP = healed]
      [] action.type = "TAKE_REST" ->
            LET healAmount == IF action.payload = JStr(long) THEN st.character.maxHP
                              ELSE (st.character.maxHP + 3) \div 4
                healed == IF st.character.currentHP + healAmount <= st.character.maxHP
                          THEN st.character.currentHP + healAmount
                          ELSE st.character.maxHP
            IN  [st EXCEPT !.character.currentHP = healed]
      [] action.type = "ADD_EXP" ->
            LET currentExp == st.character.exp + action.payload
                threshold == st.character.level * 1000
            IN  IF currentExp >= threshold
                THEN [st EXCEPT !.character.level = @ + 1,
                                !.character.exp = currentExp - threshold,
                                !.character.maxHP = st.character.maxHP + 6,
                                !.character.currentHP = st.character.maxHP + 6]
                ELSE [st EXCEPT !.character.exp = currentExp]
      [] OTHER -> st

\* gameReducer: the cases that set messages, rollHistory and ui, the fields
\* of character that the resolver reads, or the hit points, level and exp of
\* the character; no other case touches these
gameReducer(st, action) ==
    CASE action.type = "SET_CHARACTER" -> [st EXCEPT !.character = action.payload]
      [] action.type = "ADD_MESSAGE" ->
            [st EXCEPT !.messages = Append(st.messages, action.payload)]
      [] action.type = "ADD_ROLL" ->
            [st EXCEPT !.rollHistory = Append(st.rollHistory, action.payload)]
      [] action.type = "SET_UI" ->
            [st EXCEPT !.ui = [f \in DOMAIN st.ui |->
                                 IF f \in DOMAIN action.payload
                                 THEN action.payload[f] ELSE st.ui[f]]]
      [] action.type = "UPDATE_CHARACTER" ->
            [st EXCEPT !.character =
                [f \in DOMAIN st.character \cup DOMAIN action.payload |->
                    IF f \in DOMAIN action.payload
                    THEN action.payload[f] ELSE st.character[f]]]
      [] action.type = "TAKE_DAMAGE" ->
            LET newHP == IF st.character.currentHP - action.payload >= 0
                         THEN st.character.currentHP - action.payload ELSE 0
            IN  [st EXCEPT !.character.currentHP = newHP]
      [] action.type = "HEAL" ->
            LET healed == IF st.character.currentHP + action.payload <= st.character.maxHP
                          THEN st.character.currentHP + action.payload
                          ELSE st.character.maxHP
            IN  [st EXCEPT !.character.currentHP = healed]
      [] action.type = "TAKE_REST" ->
            LET healAmount == IF action.payload = JStr(long) THEN st.character.maxHP
                              ELSE (st.character.maxHP + 3) \div 4
                healed == IF st.character.currentHP + healAmount <= st.character.maxHP
                          THEN st.character.currentHP + healAmount
                          ELSE st.character.maxHP
            IN  [st EXCEPT !.character.currentHP = healed]
      [] action.type = "ADD_EXP" ->
            LET currentExp == st.character.exp + action.payload
                threshold == st.character.level * 1000
            IN  IF currentExp >= threshold
                THEN [st EXCEPT !.character.level = @ + 1,
                                !.character.exp = currentExp - threshold,
                                !.character.maxHP = st.character.maxHP + 6,
                                !.character.currentHP = st.character.maxHP + 6]
                ELSE [st EXCEPT !.character.exp = currentExp]
      [] OTHER -> st

\* the store after a sequence of dispatches
RECURSIVE reduceAll(_, _)
reduceAll(st, actions) ==
    IF actions = <<>> THEN st
    ELSE reduceAll(gameReducer(st, Head(actions)), Tail(actions))

----------------------------------------------------------------------------
(* Inputs of the checks *)

Stealth == <<"S", "t", "e", "a", "l", "t", "h">>
lockpicking == <<"l", "o", "c", "k", "p", "i", "c", "k", "i", "n", "g">>
Goblin == <<"G", "o", "b", "l", "i", "n">>
n_2d6p3 == <<"2", "d", "6", "+", "3">>
n_bad == <<"2", "x", "6">>

Rogue ==
    createCharacter((strength :> 8) @@ (dexterity :> 17) @@ (constitution :> 13)
                    @@ (intelligence :> 12) @@ (wisdom :> 14) @@ (charisma :> 10),
                    {stealth, acrobatics})

Fighter ==
    createCharacter((strength :> 16) @@ (dexterity :> 8) @@ (constitution :> 15)
                    @@ (intelligence :> 10) @@ (wisdom :> 12) @@ (charisma :> 13),
                    {athletics, intimidation})

Characters == {NoCharacter, Rogue, Fighter}

\* roll requests as the model writes them
RawRolls ==
    {JObj([type |-> JStr(npc_attack), attacker |-> JStr(Goblin), dc |-> JNum(5)]),
     JObj([type |-> JStr(npc_attack), dc |-> JNum(5), modifier |-> JNum(3),
           advantage |-> JBool(TRUE)]),
     JObj([type |-> JStr(damage_roll), notation |-> JStr(n_2d6p3)]),
     JObj([type |-> JStr(damage_roll), notation |-> JStr(n_bad)]),
     JObj([type |-> JStr(skill_check), skill |-> JStr(Stealth), dc |-> JNum(15)]),
     JObj([type |-> JStr(saving_throw), ability |-> JStr(dexterity), dc |-> JNum(12)]),
     JObj([skill |-> JStr(attack), dc |-> JNum(0), advantage |-> JBool(TRUE),
           disadvantage |-> JBool(TRUE)]),
     JObj([type |-> JStr(skill_check), skill |-> JStr(lockpicking),
           disadvantage |-> JBool(TRUE)])}

MaxBatch == 2

SeqsUpTo(S, n) == UNION {[1..k -> S] : k \in 0..n}

RawBatches == SeqsUpTo(RawRolls, MaxBatch) \ {<<>>}

\* the requestedRolls that normalizeEvents makes of a batch
Requested(batch) ==
    normalizeEvents(JObj([requested_rolls |-> JArr(batch)])).events.requestedRolls

\* values of crypto.getRandomValues: the d20 faces 1, 5 and 20
Uint32Samples == {0, 4, 19}

\* values of Math.floor(Math.random() * 3)
RandomSamples == {0, 2}

\* the random values one roll request may draw
Rnds == [u : [1..2 -> Uint32Samples], k : RandomSamples]

NotRun == [run |-> FALSE]

\* no model call is pending
NoneInFlight == [streamMessage |-> 0, sendMessage |-> <<>>]

Parked ==
    /\ state = initialGameState
    /\ stateRef = initialGameState
    /\ syncRender = FALSE
    /\ pc = "idle"
    /\ depth = 0
    /\ call = [t |-> "null"]
    /\ calls = <<>>
    /\ dispatched = <<>>
    /\ console = <<>>
    /\ settled = "none"
    /\ sends = 0
    /\ inFlight = NoneInFlight
    /\ lastSummarizedRef = 0

----------------------------------------------------------------------------
(* rollResolver.js: handleRequestedRolls; ChatPanel.jsx: sendToLLM *)

SetUI(isLoading) == [type |-> "SET_UI", payload |-> [isLoading |-> isLoading]]

\* the content of the messages and prompts of the loop: which template
Input == [template |-> "input"]
Narrative(narrative) == [template |-> "narrative", text |-> narrative]
Summary(summary) == [template |-> "summary", lines |-> summary]
ChainLimit == [template |-> "Roll chain limit reached", levels |-> MAX_ROLL_DEPTH]
ErrorMessage(name) == [template |-> "Error", name |-> name]
FollowUpPrompt(correctionNote, summary) ==
    [template |-> "SYSTEM: Dice rolled", correctionNote |-> correctionNote,
     summary |-> summary]

\* lines of console output of rollResolver.js
MaxDepthWarning == [line |-> "Max roll depth reached", depth |-> MAX_ROLL_DEPTH]
Processing(n, d) == [line |-> "Processing", rolls |-> n, depth |-> d]
AutoTriggering(d) == [line |-> "Auto-triggering follow-up", depth |-> d]
FollowUpFailed(e) == [line |-> "Follow-up narration failed", error |-> e]

\* handleRequestedRolls with the depth test off by one
handleRequestedRolls_LateLimit(requestedRolls, current, preNarrated, d, rnds) ==
    IF d > MAX_ROLL_DEPTH
    THEN [outcome |-> "returned",
          console |-> <<MaxDepthWarning>>,
          dispatches |-> <<AddMessage("system", ChainLimit, FALSE)>>]
    ELSE LET character == current.character
             correctionNote == d = 0 /\ preNarrated
             followUp(dispatches, summary) ==
                 [outcome |-> "sendToLLM",
                  console |-> <<Processing(Len(requestedRolls), d), AutoTriggering(d)>>,
                  dispatches |-> dispatches
                                 \o <<AddMessage("system", Summary(summary), TRUE)>>,
                  userMessage |-> FollowUpPrompt(correctionNote, summary)]
             resolved(r) ==
                 IF r.threw
                 THEN [outcome |-> "threw",
                       console |-> <<Processing(Len(requestedRolls), d)>>,
                       dispatches |-> r.dispatches]
                 ELSE IF Len(r.rollResults) > 0
                 THEN followUp(r.dispatches, formatRollSummary(r.rollResults))
                 ELSE [outcome |-> "returned",
                       console |-> <<Processing(Len(requestedRolls), d)>>,
                       dispatches |-> r.dispatches]
         IN  resolved(resolveRolls(requestedRolls, character, rnds))

\* handleRequestedRolls that sends the summary and follows up after every
\* round, also one in which no request resolved
handleRequestedRolls_AlwaysFollowsUp(requestedRolls, current, preNarrated, d, rnds) ==
    IF d >= MAX_ROLL_DEPTH
    THEN [outcome |-> "returned",
          console |-> <<MaxDepthWarning>>,
          dispatches |-> <<AddMessage("system", ChainLimit, FALSE)>>]
    ELSE LET character == current.character
             correctionNote == d = 0 /\ preNarrated
             followUp(dispatches, summary) ==
                 [outcome |-> "sendToLLM",
                  console |-> <<Processing(Len(requestedRolls), d), AutoTriggering(d)>>,
                  dispatches |-> dispatches
                                 \o <<AddMessage("system", Summary(summary), TRUE)>>,
                  userMessage |-> FollowUpPrompt(correctionNote, summary)]
             resolved(r) ==
                 IF r.threw
                 THEN [outcome |-> "threw",
                       console |-> <<Processing(Len(requestedRolls), d)>>,
                       dispatches |-> r.dispatches]
                 ELSE IF Len(r.rollResults) >= 0
                 THEN followUp(r.dispatches, formatRollSummary(r.rollResults))
                 ELSE [outcome |-> "returned",
                       console |-> <<Processing(Len(requestedRolls), d)>>,
                       dispatches |-> r.dispatches]
         IN  resolved(resolveRolls(requestedRolls, character, rnds))

\* handleRequestedRolls up to its first await. current is what getState()
\* returns. outcome: "returned", "threw" (resolveRolls threw), or
\* "sendToLLM" (the follow-up call is made with userMessage)
handleRequestedRolls(requestedRolls, current, preNarrated, d, rnds) ==
    IF d >= MAX_ROLL_DEPTH
    THEN [outcome |-> "returned",
          console |-> <<MaxDepthWarning>>,
          dispatches |-> <<AddMessage("system", ChainLimit, FALSE)>>]
    ELSE LET character == current.character
             correctionNote == d = 0 /\ preNarrated
             followUp(dispatches, summary) ==
                 [outcome |-> "sendToLLM",
                  console |-> <<Processing(Len(requestedRolls), d), AutoTriggering(d)>>,
                  dispatches |-> dispatches
                                 \o <<AddMessage("system", Summary(summary), TRUE)>>,
                  userMessage |-> FollowUpPrompt(correctionNote, summary)]
             resolved(r) ==
                 IF r.threw
                 THEN [outcome |-> "threw",
                       console |-> <<Processing(Len(requestedRolls), d)>>,
                       dispatches |-> r.dispatches]
                 ELSE IF Len(r.rollResults) > 0
                 THEN followUp(r.dispatches, formatRollSummary(r.rollResults))
                 ELSE [outcome |-> "returned",
                       console |-> <<Processing(Len(requestedRolls), d)>>,
                       dispatches |-> r.dispatches]
         IN  resolved(resolveRolls(requestedRolls, character, rnds))

\* sendToLLM up to its await: the request that streamMessage is called with
Request(s, userMessage) ==
    [messageHistory |->
        [i \in 1..Len(s.messages) |->
            [role |-> IF s.messages[i].role = "system" THEN "user"
                      ELSE s.messages[i].role,
             content |-> s.messages[i].content]],
     userMessage |-> userMessage,
     aborted |-> FALSE]

\* sendToLLM after its await
sendToLLMContinuation(fullResponse) ==
    LET message(narrative, events) ==
            [type |-> "ADD_MESSAGE",
             payload |-> [role |-> "assistant", content |-> Narrative(narrative),
                          hidden |-> FALSE, events |-> events]]
        location(events) == IF events # JNull /\ Truthy(events.location)
                            THEN <<Action("SET_LOCATION", events.location)>> ELSE <<>>
        apply(narrative, events, applied) ==
            IF applied.threw
            THEN [threw |-> TRUE,
                  dispatches |-> <<message(narrative, events)>> \o applied.dispatches]
            ELSE [threw |-> FALSE,
                  dispatches |-> <<message(narrative, events)>> \o applied.dispatches
                                 \o location(events),
                  events |-> events]
        continue(parsed) ==
            IF parsed.threw THEN [threw |-> TRUE, dispatches |-> <<>>]
            ELSE apply(parsed.narrative, parsed.events, applyEvents(parsed.events))
    IN  continue(parseResponse(fullResponse))

----------------------------------------------------------------------------
(* Responses of the model *)

\* JSON text of a value, as tokens
RECURSIVE Stringify(_), StringifyMembers(_, _), StringifyElements(_)
Stringify(v) ==
    CASE v.t = "str" -> <<Str(v.c)>>
      [] v.t = "num" -> <<Num(v.n)>>
      [] v.t = "bool" -> <<Lit(IF v.b THEN "true" ELSE "false")>>
      [] v.t = "arr" -> <<Punct("[")>> \o StringifyElements(v.a) \o <<Punct("]")>>
      [] v.t = "obj" -> <<Punct("{")>> \o StringifyMembers(v.o, DOMAIN v.o) \o <<Punct("}")>>
      [] OTHER -> <<Lit("null")>>

StringifyMembers(o, keys) ==
    IF keys = {} THEN <<>>
    ELSE LET k == CHOOSE x \in keys : TRUE
         IN  <<Key(k)>> \o Stringify(o[k])
             \o (IF keys = {k} THEN <<>>
                 ELSE <<Punct(",")>> \o StringifyMembers(o, keys \ {k}))

StringifyElements(a) ==
    IF a = <<>> THEN <<>>
    ELSE Stringify(Head(a))
         \o (IF Len(a) = 1 THEN <<>> ELSE <<Punct(",")>> \o StringifyElements(Tail(a)))

\* a response: prose, then a fenced block with the JSON text of v
Fenced(prose, json) == prose \o <<Fence("json")>> \o json \o <<Fence("")>>

The == <<"T", "h", "e">>
goblin == <<"g", "o", "b", "l", "i", "n">>
lunges == <<"l", "u", "n", "g", "e", "s", ".">>
You == <<"Y", "o", "u">>
hit == <<"h", "i", "t">>
hard == <<"h", "a", "r", "d", ".">>

Prose == <<Word(The), Word(goblin), Word(lunges)>>
OutcomeProse == <<Word(You), Word(hit), Word(hard)>>

RollsBlock(rolls) == Stringify(JObj([requested_rolls |-> JArr(rolls)]))

GoblinAttack == JObj([type |-> JStr(npc_attack), attacker |-> JStr(Goblin), dc |-> JNum(5)])
StealthCheck == JObj([type |-> JStr(skill_check), skill |-> JStr(Stealth), dc |-> JNum(15)])
Damage == JObj([type |-> JStr(damage_roll), notation |-> JStr(n_2d6p3)])
BadDamage == JObj([type |-> JStr(damage_roll), notation |-> JStr(n_bad)])
AbilitySave == JObj([type |-> JStr(saving_throw), ability |-> JStr(dexterity), dc |-> JNum(12)])
NumberSkill == JObj([type |-> JStr(skill_check), skill |-> JNum(5)])

----------------------------------------------------------------------------
(* resolveRolls, formatRollSummary and the first round of handleRequestedRolls *)
(* on one batch                                                             *)

InitResolve ==
    /\ Parked
    /\ fn = "resolveRolls"
    /\ \E batch \in RawBatches, character \in Characters :
          \E rnds \in [1..Len(batch) -> Rnds] :
             inp = [requestedRolls |-> Requested(batch),
                    character |-> character,
                    rnds |-> rnds]
    /\ out = NotRun

Resolve ==
    /\ out = NotRun
    /\ LET result(r, h) == [run |-> TRUE,
                            threw |-> r.threw,
                            dispatches |-> r.dispatches,
                            rollResults |-> r.rollResults,
                            summary |-> formatRollSummary(r.rollResults),
                            handled |-> h]
       IN  out' = result(resolveRolls(inp.requestedRolls, inp.character, inp.rnds),
                         handleRequestedRolls(inp.requestedRolls,
                                              [character |-> inp.character],
                                              FALSE, 0, inp.rnds))
    /\ UNCHANGED <<fn, inp>>
    /\ UNCHANGED loopVars

NextResolve == Resolve

SpecResolve == InitResolve /\ [][NextResolve]_vars

----------------------------------------------------------------------------
(* rollWithAdvantage on every pair of d20 faces *)

\* values of crypto.getRandomValues that give each face of a d20 once
D20Values == 0..19

InitAdvantage ==
    /\ Parked
    /\ fn = "rollWithAdvantage"
    /\ inp \in [count : {1, 2}, sides : {6, 20}, modifier : {-1, 0, 5},
                advantage : BOOLEAN, disadvantage : BOOLEAN,
                us : [1..2 -> D20Values]]
    /\ out = NotRun

Advantage ==
    /\ out = NotRun
    /\ out' = [run |-> TRUE,
               result |-> rollWithAdvantage(inp.count, inp.sides, inp.modifier,
                                            Text("description", JNull),
                                            inp.advantage, inp.disadvantage, inp.us)]
    /\ UNCHANGED <<fn, inp>>
    /\ UNCHANGED loopVars

NextAdvantage == Advantage

SpecAdvantage == InitAdvantage /\ [][NextAdvantage]_vars

----------------------------------------------------------------------------
(* parseResponse on responses of every shape *)

Make == <<"M", "a", "k", "e">>
check == <<"c", "h", "e", "c", "k", ".">>
DC == <<"D", "C">>
twelve == <<"1", "2">>
ruins == <<"r", "u", "i", "n", "s">>

TextRollProse == <<Word(Make), Word(w_a), Word(Stealth), Word(check), Word(DC), Word(twelve)>>

\* roll requests written as prose that end in "saving throw" and in "save"
SavingThrowProse == <<Word(Make), Word(w_a), Word(wisdom), Word(w_saving), Word(w_throw)>>
SaveProse == <<Word(Make), Word(w_a), Word(wisdom), Word(w_save)>>

\* what a fenced block may hold
JsonValues ==
    {JNull, JNum(7), JBool(TRUE), JStr(ruins), JArr(<<>>), JArr(<<GoblinAttack>>),
     JObj([requested_rolls |-> JArr(<<GoblinAttack>>)]),
     JObj([requested_rolls |-> JArr(<<JNull>>)]),
     JObj([requested_rolls |-> JArr(<<StealthCheck, JNum(7)>>)]),
     JObj([requested_rolls |-> JStr(ruins)]),
     JObj([requested_rolls |-> JArr(<<BadDamage, Damage>>), damage_taken |-> JNum(3),
           world_facts |-> JArr(<<JStr(ruins)>>)]),
     JObj([damage_taken |-> JStr(twelve), location |-> JStr(ruins)]),
     JObj([quest_updates |-> JArr(<<JNull>>), player_death |-> JBool(TRUE)])}

\* JSON text as the model may write it: whole, with a comma before the last
\* closer, or cut short
JsonTexts ==
    UNION {{Stringify(v),
            SubSeq(Stringify(v), 1, Len(Stringify(v)) - 1)
                \o <<Punct(","), Stringify(v)[Len(Stringify(v))]>>,
            SubSeq(Stringify(v), 1, Len(Stringify(v)) - 1),
            SubSeq(Stringify(v), 1, Len(Stringify(v)) - 2)} : v \in JsonValues}

\* unfenced JSON text in the prose, with and without requested_rolls
Blob == RollsBlock(<<Damage>>)
PlainBlob == Stringify(JObj([location |-> JStr(ruins)]))

\* what may stand before the first json fence, inside it, and after its end
Befores == {<<>>, Prose, Blob \o Prose}
BlockValues ==
    {JObj([requested_rolls |-> JArr(<<GoblinAttack>>)]),
     JObj([damage_taken |-> JNum(3), world_facts |-> JArr(<<JStr(ruins)>>)]),
     JNull}
BlockTexts ==
    UNION {{Stringify(v),
            SubSeq(Stringify(v), 1, Len(Stringify(v)) - 1),
            <<Punct(",")>> \o Stringify(v)} : v \in BlockValues}
Afters == {<<>>, Blob, Prose \o PlainBlob, Fenced(<<>>, RollsBlock(<<StealthCheck>>))}

FencedCases == [before : Befores, json : BlockTexts, after : Afters]

FencedResponse(c) == Fenced(c.before, c.json) \o c.after

FencedInputs == {FencedResponse(c) : c \in FencedCases}

\* JSON text that lost closers at its end and may hold a comma before the
\* first closer of its tail
RepairValues ==
    {JObj([requested_rolls |-> JArr(<<StealthCheck>>)]),
     JObj([items_found |-> JArr(<<JStr(ruins)>>), damage_taken |-> JNum(3)]),
     JObj([world_facts |-> JArr(<<JArr(<<JObj([fact |-> JStr(ruins)])>>)>>)]),
     JObj([location |-> JStr(ruins)])}

\* the number of closers that end the text
RECURSIVE TrailingClosers(_)
TrailingClosers(ts) ==
    IF ts = <<>> \/ ~IsCloser(ts[Len(ts)]) THEN 0
    ELSE 1 + TrailingClosers(SubSeq(ts, 1, Len(ts) - 1))

RepairCases ==
    {c \in [v : RepairValues, cut : 0..4, comma : BOOLEAN] :
        /\ c.cut <= TrailingClosers(Stringify(c.v))
        /\ c.comma => c.cut < TrailingClosers(Stringify(c.v))
        /\ c.comma \/ c.cut > 0}

\* the text of c.v with a comma before the first closer of its tail when
\* c.comma, and without its last c.cut closers
Damaged(c) ==
    LET text == Stringify(c.v)
        body == Len(text) - TrailingClosers(text)
        comma == IF c.comma THEN <<Punct(",")>> ELSE <<>>
    IN  SubSeq(text, 1, body) \o comma \o SubSeq(text, body + 1, Len(text) - c.cut)

RepairResponse(c) == Fenced(Prose, Damaged(c))

RepairInputs == {RepairResponse(c) : c \in RepairCases}

ParseInputs ==
    {<<>>, Prose, OutcomeProse, TextRollProse, SavingThrowProse, SaveProse}
    \cup FencedInputs
    \cup RepairInputs
    \cup UNION {{Fenced(prose, json),
                 prose \o json,
                 prose \o <<Fence("json")>> \o json,
                 prose \o <<Fence("")>> \o json \o <<Fence("")>>}
                : prose \in {<<>>, Prose, TextRollProse}, json \in JsonTexts}

InitParse ==
    /\ Parked
    /\ fn = "parseResponse"
    /\ \E response \in ParseInputs : inp = [response |-> response]
    /\ out = NotRun

Parse ==
    /\ out = NotRun
    /\ out' = [run |-> TRUE, result |-> parseResponse(inp.response)]
    /\ UNCHANGED <<fn, inp>>
    /\ UNCHANGED loopVars

NextParse == Parse

SpecParse == InitParse /\ [][NextParse]_vars

----------------------------------------------------------------------------
(* normalizeEvents on objects of every shape, once and on its own result *)

Absent == JUndef

\* the member k of an object when it is written
Member(k, v) == IF v = Absent THEN <<>> ELSE k :> v

RawEvents(rolls, taken, place, ended, death, rest, facts) ==
    JObj(Member("requested_rolls", rolls) @@ Member("damage_taken", taken)
         @@ Member("location", place) @@ Member("combat_end", ended)
         @@ Member("player_death", death) @@ Member("rest_taken", rest)
         @@ Member("world_facts", facts))

\* objects the block of a response may hold: members absent, of the expected
\* type, and of another type
NormalizeInputs ==
    {RawEvents(rolls, taken, place, ended, death, rest, facts) :
        rolls \in {Absent, JArr(<<GoblinAttack>>), JStr(ruins)},
        taken \in {Absent, JNum(3), JNum(-2), JStr(twelve)},
        place \in {Absent, JStr(ruins), JNum(5)},
        ended \in {Absent, JBool(TRUE), JStr(ruins)},
        death \in {Absent, JObj([description |-> JStr(ruins)]), JBool(TRUE)},
        rest \in {Absent, JStr(short), JNum(1)},
        facts \in {Absent, JArr(<<JStr(ruins)>>)}}

\* a normalized roll request as the JavaScript object it is
RollAsValue(r) ==
    JObj([type |-> r.type, skill |-> r.skill, ability |-> r.ability,
          dc |-> JNum(r.dc), description |-> r.description,
          attacker |-> r.attacker, modifier |-> r.modifier,
          notation |-> r.notation, advantage |-> JBool(r.advantage),
          disadvantage |-> JBool(r.disadvantage)])

\* the object normalizeEvents returns, with the keys it returns them under
AsValue(e) ==
    JObj([requestedRolls |->
             JArr([i \in 1..Len(e.requestedRolls) |-> RollAsValue(e.requestedRolls[i])]),
          damageDealt |-> JNum(e.damageDealt), damageTaken |-> JNum(e.damageTaken),
          itemsFound |-> JArr(e.itemsFound), itemsLost |-> JArr(e.itemsLost),
          goldFound |-> JNum(e.goldFound), goldLost |-> JNum(e.goldLost),
          silverFound |-> JNum(e.silverFound), silverLost |-> JNum(e.silverLost),
          copperFound |-> JNum(e.copperFound), copperLost |-> JNum(e.copperLost),
          expAwarded |-> JNum(e.expAwarded), restTaken |-> e.restTaken,
          conditionsGained |-> JArr(e.conditionsGained),
          conditionsRemoved |-> JArr(e.conditionsRemoved),
          questUpdates |-> JArr(e.questUpdates), location |-> e.location,
          healing |-> JNum(e.healing), combatStart |-> e.combatStart,
          combatEnd |-> JBool(e.combatEnd), enemyUpdates |-> JArr(e.enemyUpdates),
          addCompanions |-> JArr(e.addCompanions),
          updateCompanions |-> JArr(e.updateCompanions),
          removeCompanions |-> JArr(e.removeCompanions),
          worldFacts |-> JArr(e.worldFacts), npcUpdates |-> JArr(e.npcUpdates),
          playerDeath |-> e.playerDeath])

InitNormalize ==
    /\ Parked
    /\ fn = "normalizeEvents"
    /\ \E raw \in NormalizeInputs : inp = [raw |-> raw]
    /\ out = NotRun

Normalize ==
    /\ out = NotRun
    /\ LET twice(once) == [run |-> TRUE,
                           events |-> once.events,
                           again |-> normalizeEvents(AsValue(once.events)).events]
       IN  out' = twice(normalizeEvents(inp.raw))
    /\ UNCHANGED <<fn, inp>>
    /\ UNCHANGED loopVars

NextNormalize == Normalize

SpecNormalize == InitNormalize /\ [][NextNormalize]_vars

----------------------------------------------------------------------------
(* parseNotation on every short string *)

NotationChars == {"1", "2", "d", "D", "+", "-", " "}

MaxNotationLen == 5

NotationInputs == UNION {[1..n -> NotationChars] : n \in 0..MaxNotationLen}

InitNotation ==
    /\ Parked
    /\ fn = "parseNotation"
    /\ \E cs \in NotationInputs : inp = [notation |-> cs]
    /\ out = NotRun

Notation ==
    /\ out = NotRun
    /\ out' = [run |-> TRUE, result |-> parseNotation(JStr(inp.notation))]
    /\ UNCHANGED <<fn, inp>>
    /\ UNCHANGED loopVars

NextNotation == Notation

SpecNotation == InitNotation /\ [][NextNotation]_vars

----------------------------------------------------------------------------
(* resolvePlayerRoll on every skill of the table, in several spellings *)

Ranger ==
    createCharacter((strength :> 12) @@ (dexterity :> 16) @@ (constitution :> 13)
                    @@ (intelligence :> 10) @@ (wisdom :> 15) @@ (charisma :> 8),
                    {animalHandling, athletics})

ToUpperChar(c) ==
    IF \E i \in 1..26 : LowerCase[i] = c
    THEN UpperCase[CHOOSE i \in 1..26 : LowerCase[i] = c]
    ELSE c

\* a table key as written, in lower case, in upper case and capitalised
Spellings(key) ==
    {key,
     ToLowerCase(key),
     [i \in 1..Len(key) |-> ToUpperChar(key[i])],
     [i \in 1..Len(key) |-> IF i = 1 THEN ToUpperChar(key[i]) ELSE key[i]]}

SkillRequests ==
    {JObj([type |-> JStr(skill_check), skill |-> JStr(spelling), dc |-> JNum(12)]) :
        spelling \in UNION {Spellings(key) : key \in DOMAIN SKILL_ABILITIES}}

InitPlayerRoll ==
    /\ Parked
    /\ fn = "resolvePlayerRoll"
    /\ \E raw \in SkillRequests, character \in {Rogue, Ranger}, rnd \in Rnds :
          inp = [roll |-> Requested(<<raw>>)[1], character |-> character, rnd |-> rnd]
    /\ out = NotRun

PlayerRoll ==
    /\ out = NotRun
    /\ LET result(r) == [run |-> TRUE, threw |-> r.threw, dispatches |-> r.dispatches,
                         result |-> r.result]
       IN  out' = result(resolveOne(inp.roll, inp.character, inp.rnd))
    /\ UNCHANGED <<fn, inp>>
    /\ UNCHANGED loopVars

NextPlayerRoll == PlayerRoll

SpecPlayerRoll == InitPlayerRoll /\ [][NextPlayerRoll]_vars

----------------------------------------------------------------------------
(* The conversation loop: handleSend, the stream's two ends, handleStop *)

\* what the model may answer
Responses ==
    {Prose,
     Fenced(Prose, RollsBlock(<<GoblinAttack>>)),
     Fenced(OutcomeProse, RollsBlock(<<StealthCheck>>)),
     Fenced(Prose, RollsBlock(<<BadDamage>>)),
     Fenced(Prose, RollsBlock(<<BadDamage, Damage>>)),
     Fenced(Prose, RollsBlock(<<NumberSkill>>)),
     Fenced(Prose, RollsBlock(<<AbilitySave>>)),
     Fenced(Prose, <<Lit("null")>>),
     Fenced(Prose, Stringify(JObj([world_facts |-> JArr(<<JStr(ruins)>>)])))}

\* values of crypto.getRandomValues in the loop: the d20 faces 5 and 17
LoopUint32 == {4, 16}

LoopRnds == [u : [1..2 -> LoopUint32], k : {0}]

MaxSends == 1

NoCall == [t |-> "null"]

Init ==
    /\ \E character \in {Rogue, Fighter} :
          state = gameReducer(initialGameState,
                              [type |-> "SET_CHARACTER", payload |-> character])
    /\ stateRef = state
    /\ syncRender \in BOOLEAN
    /\ pc = "idle"
    /\ depth = 0
    /\ call = NoCall
    /\ calls = <<>>
    /\ dispatched = <<>>
    /\ console = <<>>
    /\ settled = "none"
    /\ sends = 0
    /\ inFlight = NoneInFlight
    /\ lastSummarizedRef = 0
    /\ fn = "none"
    /\ inp = NotRun
    /\ out = NotRun

\* what stateRef.current holds after the dispatches made so far in this
\* task: outside a React event handler a dispatch re-renders at once when
\* syncRender, and after the task otherwise
Current(dispatches) == IF syncRender THEN reduceAll(state, dispatches) ELSE stateRef

\* the stores after the task that made these dispatches
Dispatch(dispatches) ==
    /\ state' = reduceAll(state, dispatches)
    /\ stateRef' = reduceAll(state, dispatches)
    /\ dispatched' = dispatches

\* handleSend up to its await; a React event handler: its dispatches render
\* after it
HandleSendUpTo(maxSends) ==
    /\ sends < maxSends
    /\ ~stateRef.ui.isLoading
    /\ Dispatch(<<AddMessage("user", Input, FALSE), SetUI(TRUE)>>)
    /\ inFlight' = [inFlight EXCEPT !.streamMessage = @ + 1]
    /\ call' = Request(stateRef, Input)
    /\ calls' = <<Request(stateRef, Input)>>
    /\ pc' = "sendToLLM"
    /\ depth' = 0
    /\ console' = <<>>
    /\ settled' = "none"
    /\ sends' = sends + 1
    /\ UNCHANGED <<syncRender, lastSummarizedRef, fn, inp, out>>

HandleSend == HandleSendUpTo(MaxSends)

SUMMARIZE_EVERY == 10

\* maybeAutoSummarize up to its await: the sendMessage calls it issues, none
\* below SUMMARIZE_EVERY new messages (an API key is set whenever the input
\* is enabled)
maybeAutoSummarize(s, lastSummarizedIndex) ==
    IF Len(s.messages) - lastSummarizedIndex < SUMMARIZE_EVERY THEN <<>>
    ELSE <<[messageCount |-> Len(s.messages),
            lastSummarizedIndex |-> lastSummarizedIndex]>>

\* handleSend without its finally block
Finish_NoFinally(dispatches, lines, error, howSettled) ==
    /\ inFlight' = [streamMessage |-> inFlight.streamMessage - 1,
                    sendMessage |->
                       inFlight.sendMessage
                       \o (IF error = "none"
                           THEN maybeAutoSummarize(Current(dispatches), lastSummarizedRef)
                           ELSE <<>>)]
    /\ Dispatch(dispatches
                \o (IF error \notin {"none", "AbortError"}
                    THEN <<AddMessage("system", ErrorMessage(error), FALSE)>> ELSE <<>>))
    /\ console' = console \o lines
    /\ settled' = howSettled
    /\ pc' = "idle"
    /\ call' = NoCall
    /\ UNCHANGED <<syncRender, depth, calls, sends, lastSummarizedRef, fn, inp, out>>

\* handleSend from its catch or the end of its try on, where the summary is
\* started and not awaited, then the finally block; the stream that was
\* awaited has settled
Finish(dispatches, lines, error, howSettled) ==
    /\ inFlight' = [streamMessage |-> inFlight.streamMessage - 1,
                    sendMessage |->
                       inFlight.sendMessage
                       \o (IF error = "none"
                           THEN maybeAutoSummarize(Current(dispatches), lastSummarizedRef)
                           ELSE <<>>)]
    /\ Dispatch(dispatches
                \o (IF error \notin {"none", "AbortError"}
                    THEN <<AddMessage("system", ErrorMessage(error), FALSE)>> ELSE <<>>)
                \o <<SetUI(FALSE)>>)
    /\ console' = console \o lines
    /\ settled' = howSettled
    /\ pc' = "idle"
    /\ call' = NoCall
    /\ UNCHANGED <<syncRender, depth, calls, sends, lastSummarizedRef, fn, inp, out>>

\* the catch of the handleRequestedRolls frame at depth d, then the return
\* of every frame above it
Caught(dispatches, lines, error) ==
    Finish(dispatches, lines \o <<FollowUpFailed(error)>>, "none", "resolved")

\* StreamOpen when the signal is not handed to fetch
StreamOpen_NoSignal == pc \in {"sendToLLM", "followUp"}

\* streamMessage can still resolve: a call is in flight and its signal, which
\* the provider hands to fetch, has not aborted it
StreamOpen == pc \in {"sendToLLM", "followUp"} /\ ~call.aborted

\* the stream delivers the full response: sendToLLM resumes, and with it
\* whichever of handleSend and handleRequestedRolls awaited it
LLMRespondWith(responses, random) ==
    /\ StreamOpen
    /\ \E fullResponse \in responses :
          LET top == pc = "sendToLLM"
              d == IF top THEN 0 ELSE depth + 1
              followUp(all, lines, request) ==
                  /\ Dispatch(all)
                  /\ call' = request
                  /\ calls' = Append(calls, request)
                  /\ pc' = "followUp"
                  /\ depth' = d
                  /\ console' = console \o lines
                  /\ settled' = "pending"
                  /\ UNCHANGED <<syncRender, sends, inFlight, lastSummarizedRef,
                                 fn, inp, out>>
              handled(all, h) ==
                  CASE h.outcome = "sendToLLM" ->
                         followUp(all, h.console, Request(Current(all), h.userMessage))
                    [] h.outcome = "returned" ->
                         Finish(all, h.console, "none", "resolved")
                    [] h.outcome = "threw" ->
                         IF d = 0 THEN Finish(all, h.console, "TypeError", "rejected")
                         ELSE Caught(all, h.console, "TypeError")
              rolls(dispatches, h) == handled(dispatches \o h.dispatches, h)
              continue(sent) ==
                  IF sent.threw
                  THEN IF top THEN Finish(sent.dispatches, <<>>, "TypeError", settled)
                       ELSE Caught(sent.dispatches, <<>>, "TypeError")
                  ELSE IF sent.events = JNull \/ Len(sent.events.requestedRolls) = 0
                  THEN Finish(sent.dispatches, <<>>, "none",
                              IF top THEN settled ELSE "resolved")
                  ELSE \E rnds \in [1..Len(sent.events.requestedRolls) -> random] :
                          \E h \in {handleRequestedRolls(sent.events.requestedRolls,
                                                         Current(sent.dispatches),
                                                         FALSE, d, rnds)} :
                             rolls(sent.dispatches, h)
          IN  \E sent \in {sendToLLMContinuation(fullResponse)} : continue(sent)

LLMRespond == LLMRespondWith(Responses, LoopRnds)

\* handleStop: abortControllerRef.current?.abort()
HandleStop ==
    /\ pc \in {"sendToLLM", "followUp"}
    /\ ~call.aborted
    /\ call' = [call EXCEPT !.aborted = TRUE]
    /\ dispatched' = <<>>
    /\ UNCHANGED <<state, stateRef, syncRender, pc, depth, calls, console,
                   settled, sends, inFlight, lastSummarizedRef, fn, inp, out>>

\* streamMessage rejects: with an AbortError after abort(), with the
\* provider's Error otherwise
StreamRejects ==
    /\ pc \in {"sendToLLM", "followUp"}
    /\ LET error == IF call.aborted THEN "AbortError" ELSE "Error"
       IN  IF pc = "sendToLLM" THEN Finish(<<>>, <<>>, error, settled)
           ELSE Caught(<<>>, <<>>, error)

\* the sendMessage of a pending maybeAutoSummarize settles and the function
\* runs to its end: with a summary it dispatches the journal entry and
\* returns messageCount; when the call or JSON.parse throws it returns the
\* lastSummarizedIndex it was given; then() stores what it returned
SummarySettles ==
    /\ inFlight.sendMessage # <<>>
    /\ \E i \in 1..Len(inFlight.sendMessage), summarized \in BOOLEAN :
          LET summary == inFlight.sendMessage[i]
          IN  /\ inFlight' = [inFlight EXCEPT !.sendMessage =
                                 SubSeq(@, 1, i - 1) \o SubSeq(@, i + 1, Len(@))]
              /\ IF summarized
                 THEN /\ Dispatch(<<Action("ADD_JOURNAL_ENTRY",
                                           [messageRange |->
                                              <<summary.lastSummarizedIndex,
                                                summary.messageCount>>])>>)
                      /\ lastSummarizedRef' = summary.messageCount
                 ELSE /\ Dispatch(<<>>)
                      /\ lastSummarizedRef' = summary.lastSummarizedIndex
    /\ UNCHANGED <<syncRender, pc, depth, call, calls, console, settled, sends,
                   fn, inp, out>>

Next == HandleSend \/ LLMRespond \/ HandleStop \/ StreamRejects \/ SummarySettles

Spec == Init /\ [][Next]_vars

----------------------------------------------------------------------------
(* Two user actions in a row, on two responses and one outcome of the dice *)

OverlapResponses == {Prose, Fenced(Prose, RollsBlock(<<StealthCheck>>))}

OverlapRnds == {[u |-> [i \in 1..2 |-> 4], k |-> 0]}

MaxOverlapSends == 2

NextOverlap ==
    \/ HandleSendUpTo(MaxOverlapSends)
    \/ LLMRespondWith(OverlapResponses, OverlapRnds)
    \/ HandleStop
    \/ StreamRejects
    \/ SummarySettles

SpecOverlap == Init /\ [][NextOverlap]_vars

\* every model call settles: a stream in flight delivers its response or
\* rejects
CallsSettle == WF_vars(LLMRespondWith(OverlapResponses, OverlapRnds) \/ StreamRejects)

SpecSettling == Init /\ [][NextOverlap]_vars /\ CallsSettle

----------------------------------------------------------------------------
(* applyEvents and the reducer on a sequence of GameEvents *)

\* getMaxHitPoints for a class with this hit die
getMaxHitPoints(level, conMod, hitDie) ==
    (hitDie + conMod) + ((hitDie \div 2) + 1 + conMod) * (level - 1)

FighterHitDie == 10

\* the character of createCharacter with its hit points, and exp as
\* SET_CHARACTER initialises it
WithHitPoints(character, hitDie, currentHP) ==
    [f \in DOMAIN character \cup {"maxHP", "currentHP", "exp"} |->
        CASE f = "maxHP" ->
                getMaxHitPoints(1, getModifier(character.abilityScores[constitution]), hitDie)
          [] f = "currentHP" -> currentHP
          [] f = "exp" -> 0
          [] OTHER -> character[f]]

MaxLevel == 2
MaxDeaths == 1

\* blocks that change hit points: damage and healing below, at and above
\* zero, experience, rests and the player's death
EventInputs ==
    {JObj(Member("damage_taken", taken) @@ Member("healing", healing)
          @@ Member("exp_awarded", exp) @@ Member("rest_taken", rest)
          @@ Member("player_death", death)) :
        taken \in {JNum(-3), JNum(0), JNum(4), JNum(50)},
        healing \in {Absent, JNum(-2), JNum(3)},
        exp \in {Absent, JNum(600)},
        rest \in {Absent, JStr(short), JStr(long)},
        death \in {Absent, JBool(TRUE)}}

InitEvents ==
    /\ \E currentHP \in 0..getMaxHitPoints(1, getModifier(15), FighterHitDie) :
          state = gameReducer(initialGameState,
                              [type |-> "SET_CHARACTER",
                               payload |-> WithHitPoints(Fighter, FighterHitDie, currentHP)])
    /\ stateRef = state
    /\ syncRender = FALSE
    /\ pc = "idle"
    /\ depth = 0
    /\ call = NoCall
    /\ calls = <<>>
    /\ dispatched = <<>>
    /\ console = <<>>
    /\ settled = "none"
    /\ sends = 0
    /\ inFlight = NoneInFlight
    /\ lastSummarizedRef = 0
    /\ fn = "applyEvents"
    /\ inp = NotRun
    /\ out = NotRun

\* sendToLLM applies the events of one response
ApplyEvents ==
    /\ \E raw \in EventInputs :
          LET apply(events, applied) ==
                  /\ events.expAwarded > 0 => state.character.level < MaxLevel
                  /\ Truthy(events.playerDeath) => Len(state.messages) < MaxDeaths
                  /\ Dispatch(applied.dispatches)
                  /\ inp' = [run |-> TRUE, events |-> events]
                  /\ out' = [run |-> TRUE, before |-> state.character]
              normalized(events) == apply(events, applyEvents(events))
          IN  normalized(normalizeEvents(raw).events)
    /\ UNCHANGED <<syncRender, pc, depth, call, calls, console, settled, sends,
                   inFlight, lastSummarizedRef, fn>>

NextEvents == ApplyEvents

SpecEvents == InitEvents /\ [][NextEvents]_vars

----------------------------------------------------------------------------
(* Properties of the conversation loop (Spec) *)

\* resolution rounds since the last send: one "Processing" line each
Rounds == Cardinality({i \in 1..Len(console) : console[i].line = "Processing"})

\* follow-up calls since the last send: every call but the first
FollowUpCalls == IF calls = <<>> THEN 0 ELSE Len(calls) - 1

\* the messages appended since the last send began, the user's included
SinceInput ==
    LET inputs == {i \in 1..Len(state.messages) : state.messages[i].role = "user"}
        last == CHOOSE i \in inputs : \A j \in inputs : j <= i
    IN  IF inputs = {} THEN <<>>
        ELSE SubSeq(state.messages, last, Len(state.messages))

Notices ==
    Cardinality({i \in 1..Len(SinceInput) :
                    SinceInput[i].content.template = ChainLimit.template})

RequestedRollsOf(message) ==
    IF message.role = "assistant" /\ message.events # JNull
    THEN message.events.requestedRolls ELSE <<>>

\* responses since the last send that requested rolls
RequestingResponses ==
    Cardinality({i \in 1..Len(SinceInput) : Len(RequestedRollsOf(SinceInput[i])) > 0})

\* C1: a chain of responses that each request a resolvable roll runs
\* MAX_ROLL_DEPTH resolution rounds, at depths 0, 1, 2 in turn, each followed
\* by one follow-up call; the response to the last of these calls, when it
\* requests rolls again, gets the chain-limit notice once and the loop ends:
\* there is never a fourth round or a fourth follow-up call.
C1_ChainLimit ==
    /\ Rounds <= MAX_ROLL_DEPTH
    /\ FollowUpCalls <= Rounds
    /\ pc = "followUp" => FollowUpCalls = Rounds /\ depth = Rounds - 1
    /\ \A i \in 1..Len(console) :
          console[i].line = "Processing" =>
             console[i].depth =
                Cardinality({j \in 1..(i - 1) : console[j].line = "Processing"})
    /\ Notices <= 1
    /\ Notices = 1 =>
          /\ pc = "idle"
          /\ Rounds = MAX_ROLL_DEPTH
          /\ FollowUpCalls = MAX_ROLL_DEPTH
    /\ (pc = "idle" /\ RequestingResponses = MAX_ROLL_DEPTH + 1) => Notices = 1

C1_Witness ==
    /\ pc = "idle"
    /\ Notices = 1
    /\ RequestingResponses = MAX_ROLL_DEPTH + 1
    /\ Rounds = MAX_ROLL_DEPTH

\* C3: when the stream of a follow-up call rejects, the promise of
\* handleRequestedRolls rejects, and handleSend shows an error unless the
\* rejection is an abort.
C3_FollowUpRejectionPropagates ==
    [][(pc = "followUp" /\ StreamRejects) =>
          /\ settled' = "rejected"
          /\ call.aborted \/ \E i \in 1..Len(dispatched') :
                                /\ dispatched'[i].type = "ADD_MESSAGE"
                                /\ dispatched'[i].payload.content.template = "Error"]_vars

\* C5: the history that a follow-up call is issued with ends with the hidden
\* message that carries the summary of the round.
C5_HistoryHoldsSummary ==
    \A i \in 2..Len(calls) :
       LET sent == calls[i].messageHistory
       IN  /\ sent # <<>>
           /\ sent[Len(sent)].content.template = "summary"
           /\ sent[Len(sent)].content.lines = calls[i].userMessage.summary

\* C8: once the follow-up call in flight is aborted, the next step ends the
\* user action without a further call or round, and no step ever removes or
\* changes a record of rollHistory.
C8_AbortStopsTheLoop ==
    [][/\ (pc = "followUp" /\ call.aborted) =>
             /\ pc' = "idle"
             /\ calls' = calls
             /\ Rounds' = Rounds
             /\ state'.rollHistory = state.rollHistory
       /\ Len(state'.rollHistory) >= Len(state.rollHistory)
       /\ SubSeq(state'.rollHistory, 1, Len(state.rollHistory)) = state.rollHistory]_vars

C8_Witness ==
    /\ pc = "idle"
    /\ console # <<>>
    /\ console[Len(console)] = FollowUpFailed("AbortError")
    /\ Len(state.rollHistory) > 0
    /\ FollowUpCalls = 1

\* C10: when the response that requested the rolls of the first round
\* pre-narrated an outcome, the prompt of the follow-up call of that round
\* carries the correction clause.
C10_CorrectionClauseSent ==
    (Len(calls) >= 2 /\ Len(SinceInput) >= 2
     /\ SinceInput[2].role = "assistant"
     /\ detectPreNarratedOutcome(SinceInput[2].content.text))
        => calls[2].userMessage.correctionNote

----------------------------------------------------------------------------
(* Properties of parseResponse (SpecParse) *)

\* C2: parseResponse returns a value for every response; no exception
\* leaves it.
C2_ParseNeverThrows == out.run => ~out.result.threw

\* what the body of a fenced block stands for: its JSON value, read directly
\* or after one repair
BlockValue(json) ==
    IF JSONparse(json).ok THEN JSONparse(json) ELSE JSONparse(repairJson(json))

\* C11 as stated: whenever the response holds a fenced json block, the
\* narrative is the text before the first fence and the events are those of
\* the body of that block, whatever stands elsewhere in the response.
C11_FencedBlockOnly ==
    out.run =>
       \A c \in FencedCases :
          inp.response = FencedResponse(c) =>
             /\ ~out.result.threw
             /\ out.result.narrative = c.before
             /\ BlockValue(c.json).ok
             /\ out.result.events = normalizeEvents(BlockValue(c.json).v).events

\* C11: when the body of the first fenced json block parses, directly or after
\* one repair, the narrative is the text before that fence and the events are
\* normalizeEvents of the body's value (or the TypeError of normalizeEvents
\* leaves parseResponse); when the body does not parse even after repair, the
\* narrative is the whole response and events is null. Text outside the first
\* block, fenced or not, never reaches events.
C11_FencedBlockWins ==
    out.run =>
       \A c \in FencedCases :
          inp.response = FencedResponse(c) =>
             IF ~BlockValue(c.json).ok
             THEN out.result = Parsed(inp.response, JNull, FALSE)
             ELSE IF normalizeEvents(BlockValue(c.json).v).threw
             THEN out.result.threw
             ELSE out.result
                    = Parsed(c.before, normalizeEvents(BlockValue(c.json).v).events, FALSE)

\* C12: a fenced body that is valid JSON but for a comma before a closer
\* and closers missing at its end, of either kind and in any order, is
\* repaired: parseResponse returns the events of the intended object and the
\* text before the fence.
C12_RepairRestores ==
    out.run =>
       \A c \in RepairCases :
          inp.response = RepairResponse(c) =>
             out.result = Parsed(Prose, normalizeEvents(c.v).events, FALSE)

\* an unfenced requested_rolls object before the fence and a second fenced
\* block after it: the goblin's attack of the first block is the one request
C11_Witness ==
    /\ out.run
    /\ inp.response
          = FencedResponse([before |-> Blob \o Prose,
                            json |-> RollsBlock(<<GoblinAttack>>),
                            after |-> Fenced(<<>>, RollsBlock(<<StealthCheck>>))])
    /\ ~out.result.threw
    /\ out.result.narrative = Blob \o Prose
    /\ Len(out.result.events.requestedRolls) = 1
    /\ out.result.events.requestedRolls[1].type = JStr(npc_attack)

\* the GameEvents of an object without members
DefaultEvents == normalizeEvents(JObj(<<>>)).events

\* the response has no fenced json block and no unfenced requested_rolls
\* object that JSON.parse accepts
OnlyText(response) ==
    /\ response # <<>>
    /\ \A i \in 1..Len(response) : response[i] # Fence("json")
    /\ looseJsonMatch(response).found => ~JSONparse(looseJsonMatch(response).text).ok

\* C16: on a response with no fenced block and no parseable unfenced
\* requested_rolls object, rolls found by the text roll detector become the
\* requestedRolls of events whose other fields are defaults, the flag
\* _textRollDetected is set and the narrative is the whole response; when the
\* detector finds nothing, events is null.
C16_TextRollFallback ==
    (out.run /\ OnlyText(inp.response)) =>
       LET detected == detectTextRollRequests(inp.response)
       IN  IF Len(detected) > 0
           THEN out.result
                  = Parsed(inp.response,
                           [DefaultEvents EXCEPT
                               !.requestedRolls =
                                  [i \in 1..Len(detected) |-> normalizeRoll(detected[i])]],
                           TRUE)
           ELSE out.result = Parsed(inp.response, JNull, FALSE)

\* "Make a Stealth check. DC 12" after a requested_rolls object cut short:
\* one skill check on stealth against 12, flagged as found in the text
C16_Witness ==
    /\ out.run
    /\ OnlyText(inp.response)
    /\ looseJsonMatch(inp.response).found
    /\ out.result.textRollDetected
    /\ out.result.narrative = inp.response
    /\ Len(out.result.events.requestedRolls) = 1
    /\ out.result.events.requestedRolls[1].type = JStr(skill_check)
    /\ out.result.events.requestedRolls[1].skill = JStr(stealth)
    /\ out.result.events.requestedRolls[1].dc = 12
    /\ out.result.events.damageTaken = 0

\* the body of the first fenced json block fails JSON.parse as written and
\* after one repairJson pass
FailsTwice(response) ==
    /\ jsonMatch(response).found
    /\ ~JSONparse(jsonMatch(response).body).ok
    /\ ~JSONparse(repairJson(jsonMatch(response).body)).ok

\* C27: when the body of the fenced json block fails JSON.parse as written
\* and after one repairJson pass, parseResponse returns the whole response as
\* narrative and events = null: no second repair, no unfenced scan and no
\* text roll detector, whatever the prose holds.
C27_DoubleFailureIsFinal ==
    (out.run /\ FailsTwice(inp.response)) =>
       /\ out.result = Parsed(inp.response, JNull, FALSE)
       /\ ~out.result.textRollDetected

\* "Make a Stealth check. DC 12" ahead of a fenced body that fails twice: the
\* detector would find a roll in the response, and events is null
C27_Witness ==
    /\ out.run
    /\ FailsTwice(inp.response)
    /\ Len(inp.response) > Len(TextRollProse)
    /\ SubSeq(inp.response, 1, Len(TextRollProse)) = TextRollProse
    /\ Len(detectTextRollRequests(inp.response)) > 0
    /\ out.result.events = JNull
    /\ out.result.narrative = inp.response

\* C21: a roll found by the primary pattern of the text roll detector has
\* type saving_throw whenever its matched phrase ends in "save" or in
\* "saving throw", and type skill_check only when the phrase ends in "check".
C21_SavePhraseIsSavingThrow ==
    (out.run /\ ~out.result.threw /\ out.result.textRollDetected
        /\ Pattern1(inp.response, 1, detectDc(inp.response)) # <<>>) =>
       \A i \in 1..Len(out.result.events.requestedRolls) :
          LET r == out.result.events.requestedRolls[i]
              phrase == ToLowerCase(r.description.c)
          IN  /\ (EndsWith(phrase, w_save) \/ EndsWith(phrase, Join(<<w_saving, w_throw>>)))
                    => r.type = JStr(saving_throw)
              /\ r.type = JStr(skill_check) => EndsWith(phrase, w_check)

----------------------------------------------------------------------------
(* Properties of normalizeEvents (SpecNormalize) *)

\* C13: normalizeEvents applied to its own result gives that result again.
C13_NormalizeIdempotent == out.run => out.again = out.events

EventFields ==
    {"requestedRolls", "damageDealt", "damageTaken", "itemsFound", "itemsLost",
     "goldFound", "goldLost", "silverFound", "silverLost", "copperFound",
     "copperLost", "expAwarded", "restTaken", "conditionsGained",
     "conditionsRemoved", "questUpdates", "location", "healing", "combatStart",
     "combatEnd", "enemyUpdates", "addCompanions", "updateCompanions",
     "removeCompanions", "worldFacts", "npcUpdates", "playerDeath"}

\* C14: the result has every field, none undefined, and a field whose raw
\* member is absent or of another type than the documented one holds its
\* default: 0 for a delta, the empty sequence for a sequence, null for
\* restTaken, location and playerDeath, false for combatEnd.
C14_TypedDefaults ==
    out.run =>
       LET raw == inp.raw
           e == out.events
       IN  /\ DOMAIN e = EventFields
           /\ \A k \in {"restTaken", "location", "combatStart", "playerDeath"} :
                 e[k] # JUndef
           /\ Get(raw, "requested_rolls").t # "arr" => e.requestedRolls = <<>>
           /\ Get(raw, "world_facts").t # "arr" => e.worldFacts = <<>>
           /\ Get(raw, "damage_taken").t # "num" => e.damageTaken = 0
           /\ Get(raw, "rest_taken").t # "str" => e.restTaken = JNull
           /\ Get(raw, "location").t # "str" => e.location = JNull
           /\ Get(raw, "combat_end").t # "bool" => e.combatEnd = FALSE
           /\ Get(raw, "player_death").t # "obj" => e.playerDeath = JNull
           /\ e.damageDealt = 0 /\ e.healing = 0 /\ e.itemsFound = <<>>
           /\ e.combatStart = JNull

\* C15: every scalar delta of the result is a non-negative integer.
C15_DeltasNonNegative ==
    out.run =>
       \A k \in {"damageDealt", "damageTaken", "healing", "goldFound", "goldLost",
                  "silverFound", "silverLost", "copperFound", "copperLost",
                  "expAwarded"} :
          out.events[k] \in Nat

----------------------------------------------------------------------------
(* Properties of one batch (SpecResolve) *)

RECURSIVE Flatten(_)
Flatten(seqs) == IF seqs = <<>> THEN <<>> ELSE Head(seqs) \o Flatten(Tail(seqs))

\* request i of the batch alone
Alone(i) == resolveOne(inp.requestedRolls[i], inp.character, inp.rnds[i])

\* request i is a damage roll whose notation parseNotation rejects
BadNotation(i) ==
    /\ inp.requestedRolls[i].type = JStr(damage_roll)
    /\ ~parseNotation(Or(inp.requestedRolls[i].notation, JStr(default_notation))).ok

\* the subsequence of seq at the indices that satisfy Keep
Select(seq, Keep(_)) ==
    LET indices == {i \in 1..Len(seq) : Keep(i)}
        nth(k) == CHOOSE i \in indices : Cardinality({j \in indices : j < i}) = k - 1
    IN  [k \in 1..Cardinality(indices) |-> seq[nth(k)]]

\* C4: an npc_attack resolved while the state holds a character is judged
\* against that character's armor class A: the result and its summary line
\* report A as the target and the outcome is total >= A, whatever dc the
\* request carries.
C4_NpcAttackAgainstArmorClass ==
    (out.run /\ HasCharacter(inp.character)) =>
       \A i \in 1..Len(out.rollResults) :
          out.rollResults[i].type = JStr(npc_attack) =>
             /\ out.rollResults[i].dc = inp.character.armorClass
             /\ out.rollResults[i].success
                   = (out.rollResults[i].rolled >= inp.character.armorClass)
             /\ out.summary[i].dc = inp.character.armorClass
             /\ out.summary[i].outcome
                   = (IF out.rollResults[i].rolled >= inp.character.armorClass
                      THEN "HIT" ELSE "MISS")

\* a request with dc 5 whose total reaches 5 but not the armor class: a miss
C4_Witness ==
    /\ out.run
    /\ HasCharacter(inp.character)
    /\ Len(inp.requestedRolls) = 1
    /\ inp.requestedRolls[1].type = JStr(npc_attack)
    /\ inp.requestedRolls[1].dc = 5
    /\ Len(out.rollResults) = 1
    /\ out.rollResults[1].rolled >= 5
    /\ out.rollResults[1].rolled < inp.character.armorClass
    /\ ~out.rollResults[1].success

\* C6: the dispatches of a batch are those of its requests, request by
\* request in array order; the results are those of the requests that were
\* not dropped, in array order, and the summary has their lines in that order.
C6_ArrayOrder ==
    (out.run /\ ~out.threw) =>
       LET n == Len(inp.requestedRolls)
           kept(i) == ~IsDropped(Alone(i).result)
           results == [i \in 1..n |-> Alone(i).result]
       IN  /\ out.dispatches = Flatten([i \in 1..n |-> Alone(i).dispatches])
           /\ out.rollResults = Select(results, kept)
           /\ out.summary
                 = [i \in 1..Len(out.rollResults) |-> summaryLine(out.rollResults[i])]

\* two requests that both resolve, to different results, with a dropped
\* request nowhere: four dispatches, two results, two lines
C6_Witness ==
    /\ out.run
    /\ Len(inp.requestedRolls) = 2
    /\ Len(out.rollResults) = 2
    /\ Len(out.dispatches) = 4
    /\ out.rollResults[1].type # out.rollResults[2].type
    /\ out.summary[1] # out.summary[2]

\* C7: a damage roll whose notation is rejected is dropped alone: the batch
\* dispatches and yields what it would without that request, nothing is
\* thrown, and the follow-up call is made as soon as another roll resolved.
C7_BadNotationDropsOneRoll ==
    out.run =>
       LET good(i) == ~BadNotation(i)
           rest == resolveRolls(Select(inp.requestedRolls, good), inp.character,
                                Select(inp.rnds, good))
       IN  /\ ~out.threw
           /\ out.dispatches = rest.dispatches
           /\ out.rollResults = rest.rollResults
           /\ \A i \in 1..Len(inp.requestedRolls) :
                 BadNotation(i) => Alone(i).dispatches = <<>>
           /\ out.handled.outcome
                 = (IF Len(out.rollResults) > 0 THEN "sendToLLM" ELSE "returned")
           /\ Len(out.handled.dispatches)
                 = Len(out.dispatches) + (IF Len(out.rollResults) > 0 THEN 1 ELSE 0)

\* a rejected damage roll ahead of a roll that resolves
C7_Witness ==
    /\ out.run
    /\ Len(inp.requestedRolls) = 2
    /\ BadNotation(1)
    /\ ~BadNotation(2)
    /\ Len(out.rollResults) = 1
    /\ Len(out.dispatches) = 2
    /\ out.handled.outcome = "sendToLLM"

\* the summary line shows the mark of a natural 20 or a natural 1
ShowsNatural(line, face) ==
    /\ face = 20 => "natural20" \in DOMAIN line /\ line.natural20
    /\ face = 1 => "natural1" \in DOMAIN line /\ line.natural1

\* C17: a resolved d20 roll whose kept face is 20 is tagged isCritical in the
\* ADD_ROLL record, one whose kept face is 1 is tagged isCritFail, whatever
\* the modifier, and the line of that roll in the summary for the model shows
\* the same mark.
C17_CriticalTagged ==
    (out.run /\ ~out.threw) =>
       \A k \in 1..Len(out.rollResults) :
          LET record == out.dispatches[2 * k - 1].payload
          IN  record.dice = [count |-> 1, sides |-> 20] =>
                 /\ out.dispatches[2 * k - 1].type = "ADD_ROLL"
                 /\ record.isCritical = (record.rolls[1] = 20)
                 /\ record.isCritFail = (record.rolls[1] = 1)
                 /\ ShowsNatural(out.summary[k], record.rolls[1])

\* request i is neither an NPC roll nor a damage roll
PlayerRequest(i) ==
    inp.requestedRolls[i].type \notin {JStr(npc_attack), JStr(npc_save), JStr(damage_roll)}

\* request i names a skill or an ability
NamesSkillOrAbility(i) ==
    Truthy(inp.requestedRolls[i].skill) \/ Truthy(inp.requestedRolls[i].ability)

\* C22: with a character in the state, every request that is neither an NPC
\* roll nor a damage roll and names a skill or an ability, a request with
\* only ability set included, is resolved: one d20 result is dispatched as
\* ADD_ROLL and a RollResult is collected for it.
C22_PlayerRollResolved ==
    (out.run /\ ~out.threw /\ HasCharacter(inp.character)) =>
       /\ \A i \in 1..Len(inp.requestedRolls) :
             (PlayerRequest(i) /\ NamesSkillOrAbility(i)) =>
                /\ ~IsDropped(Alone(i).result)
                /\ Len(Alone(i).dispatches) > 0
                /\ Alone(i).dispatches[1].type = "ADD_ROLL"
                /\ Alone(i).dispatches[1].payload.dice = [count |-> 1, sides |-> 20]
       /\ (\A i \in 1..Len(inp.requestedRolls) : PlayerRequest(i) /\ NamesSkillOrAbility(i))
             => Len(out.rollResults) = Len(inp.requestedRolls)

\* request i is a player roll whose name is no skill of the table, no
\* ability and not "attack"
UnknownSkill(i) ==
    /\ PlayerRequest(i)
    /\ inp.requestedRolls[i].skill.t = "str"
    /\ ToLowerCase(inp.requestedRolls[i].skill.c)
          \notin (DOMAIN SKILL_ABILITIES) \cup ABILITY_NAMES \cup {attack}

\* C24: with a character in the state, a player roll on an unknown skill
\* name is rolled as 1d20 with modifier 0, is dispatched as ADD_ROLL and as a
\* visible message, yields a RollResult, and leaves the batch running: every
\* request of the batch dispatches and yields what it does alone.
C24_UnknownSkillFlatD20 ==
    (out.run /\ HasCharacter(inp.character)) =>
       \A i \in 1..Len(inp.requestedRolls) :
          UnknownSkill(i) =>
             /\ ~out.threw
             /\ ~Alone(i).threw
             /\ ~IsDropped(Alone(i).result)
             /\ Len(Alone(i).dispatches) = 2
             /\ Alone(i).dispatches[1].type = "ADD_ROLL"
             /\ Alone(i).dispatches[1].payload.dice = [count |-> 1, sides |-> 20]
             /\ Alone(i).dispatches[1].payload.modifier = 0
             /\ Alone(i).dispatches[1].payload.total
                   = Alone(i).dispatches[1].payload.rolls[1]
             /\ Alone(i).dispatches[2].type = "ADD_MESSAGE"
             /\ out.dispatches
                   = Flatten([j \in 1..Len(inp.requestedRolls) |-> Alone(j).dispatches])
             /\ Len(out.rollResults)
                   = Cardinality({j \in 1..Len(inp.requestedRolls) :
                                    ~IsDropped(Alone(j).result)})

\* a lockpicking check ahead of a goblin's attack: both resolve, the check
\* with its bare d20
C24_Witness ==
    /\ out.run
    /\ HasCharacter(inp.character)
    /\ Len(inp.requestedRolls) = 2
    /\ UnknownSkill(1)
    /\ inp.requestedRolls[2].type = JStr(npc_attack)
    /\ Len(out.rollResults) = 2
    /\ Len(out.dispatches) = 4
    /\ out.dispatches[1].payload.modifier = 0
    /\ out.rollResults[1].skill = JStr(lockpicking)
    /\ out.rollResults[2].type = JStr(npc_attack)

\* the number of actions of a type among dispatches
Count(dispatches, type) ==
    Cardinality({k \in 1..Len(dispatches) : dispatches[k].type = type})

\* the visible system messages among dispatches
RollMessages(dispatches) ==
    Cardinality({k \in 1..Len(dispatches) :
                    /\ dispatches[k].type = "ADD_MESSAGE"
                    /\ dispatches[k].payload.role = "system"
                    /\ ~dispatches[k].payload.hidden})

C28_OutcomeAgreesWithNumbers ==
    (out.run /\ ~out.threw) =>
       \A k \in 1..Len(out.rollResults) :
          out.rollResults[k].type # JStr(damage_roll) =>
             /\ out.rollResults[k].success
                   = (out.rollResults[k].rolled >= out.rollResults[k].dc)
             /\ out.summary[k].dc = out.rollResults[k].dc
             /\ out.summary[k].rolled = out.rollResults[k].rolled
             /\ (out.summary[k].outcome \in {"SUCCESS", "HIT"})
                   = (out.summary[k].rolled >= out.summary[k].dc)

----------------------------------------------------------------------------
(* Properties of parseNotation (SpecNotation) *)

\* the value of a run of digits
RECURSIVE Uint(_)
Uint(cs) ==
    IF cs = <<>> THEN 0
    ELSE 10 * Uint(SubSeq(cs, 1, Len(cs) - 1))
         + (CHOOSE n \in 0..9 : NatToStr(n) = <<cs[Len(cs)]>>)

IsUint(cs) ==
    cs # <<>> /\ \A i \in 1..Len(cs) : \E n \in 0..9 : NatToStr(n) = <<cs[i]>>

\* the readings of cs as <uint>d<uint>[(+|-)<uint>]: where the d stands and
\* where the sign stands (past the end when there is none)
Readings(cs) ==
    {r \in [d : 1..Len(cs), sign : 1..(Len(cs) + 1)] :
        /\ r.d < r.sign
        /\ cs[r.d] = "d"
        /\ IsUint(SubSeq(cs, 1, r.d - 1))
        /\ IsUint(SubSeq(cs, r.d + 1, r.sign - 1))
        /\ r.sign <= Len(cs) =>
              /\ cs[r.sign] \in {"+", "-"}
              /\ IsUint(SubSeq(cs, r.sign + 1, Len(cs)))}

\* C18: parseNotation returns the written count, sides and modifier exactly
\* for the strings of the grammar <uint>d<uint>[(+|-)<uint>] and throws for
\* every other string, white space inside or an upper-case D included.
C18_ExactGrammar ==
    out.run =>
       LET cs == inp.notation
       IN  /\ out.result.ok <=> Readings(cs) # {}
           /\ \A r \in Readings(cs) :
                 /\ out.result.count = Uint(SubSeq(cs, 1, r.d - 1))
                 /\ out.result.sides = Uint(SubSeq(cs, r.d + 1, r.sign - 1))
                 /\ out.result.modifier
                       = (IF r.sign > Len(cs) THEN 0
                          ELSE IF cs[r.sign] = "-"
                          THEN 0 - Uint(SubSeq(cs, r.sign + 1, Len(cs)))
                          ELSE Uint(SubSeq(cs, r.sign + 1, Len(cs))))

----------------------------------------------------------------------------
(* Properties of a player roll on a skill (SpecPlayerRoll) *)

\* the modifier of the rules for a skill of the table
SkillModifier(character, key) ==
    getModifier(character.abilityScores[SKILL_ABILITIES[key]])
    + (IF key \in character.skillProficiencies
       THEN getProficiencyBonus(character.level) ELSE 0)

\* C23: a player roll that names a skill of the skill-to-ability table, in
\* any letter case, is rolled as 1d20 with the mapped ability's modifier plus
\* the proficiency bonus when the character is proficient in that skill; this
\* holds for sleightOfHand and animalHandling as for the one-word skills.
C23_SkillModifierApplied ==
    out.run =>
       \A key \in DOMAIN SKILL_ABILITIES :
          ToLowerCase(inp.roll.skill.c) = ToLowerCase(key) =>
             /\ ~out.threw
             /\ out.dispatches[1].type = "ADD_ROLL"
             /\ out.dispatches[1].payload.dice = [count |-> 1, sides |-> 20]
             /\ out.dispatches[1].payload.modifier = SkillModifier(inp.character, key)

----------------------------------------------------------------------------
(* Properties of rollWithAdvantage (SpecAdvantage) *)

Max(a, b) == IF a >= b THEN a ELSE b
Min(a, b) == IF a <= b THEN a ELSE b

\* C9: on 1d20 with successive faces a and b, advantage keeps max(a, b),
\* disadvantage alone keeps min(a, b), and the total is the kept face plus the
\* modifier; without a flag, or on other dice, one roll of count dice is made.
C9_AdvantageKeeps ==
    out.run =>
       LET a == (inp.us[1] % 20) + 1
           b == (inp.us[2] % 20) + 1
           kept == IF inp.advantage THEN Max(a, b) ELSE Min(a, b)
           single == [i \in 1..inp.count |-> (inp.us[i] % inp.sides) + 1]
       IN  IF (inp.advantage \/ inp.disadvantage) /\ inp.count = 1 /\ inp.sides = 20
           THEN /\ out.result.rolls = <<kept>>
                /\ out.result.total = kept + inp.modifier
                /\ out.result.advantageDetail = <<a, b, kept>>
           ELSE /\ out.result.rolls = single
                /\ out.result.total = Sum(single) + inp.modifier
                /\ out.result.advantageDetail = NoDetail

\* faces 5 then 17 with both flags set: 17 is kept
C9_Witness ==
    /\ out.run
    /\ inp.advantage /\ inp.disadvantage
    /\ inp.count = 1 /\ inp.sides = 20
    /\ inp.us = <<4, 16>>
    /\ out.result.rolls = <<17>>
    /\ out.result.total = 17 + inp.modifier

----------------------------------------------------------------------------
(* Properties of the conversation loop (Spec): state beyond the messages *)

\* the world facts of the responses received so far, in order
FactsReceived ==
    Flatten([i \in 1..Len(state.messages) |->
               IF state.messages[i].role = "assistant"
                  /\ state.messages[i].events # JNull
               THEN state.messages[i].events.worldFacts ELSE <<>>])

\* C19: the world facts of every response so far are held by the game
\* state, appended in the order received.
C19_WorldFactsAppended ==
    FactsReceived # <<>> =>
       /\ "worldFacts" \in DOMAIN state
       /\ state.worldFacts = FactsReceived

----------------------------------------------------------------------------
(* Properties of two user actions in a row (SpecOverlap) *)

\* C20: at any time at most one model call is pending, whether issued by
\* handleSend, by handleRequestedRolls or by a step that handleSend started;
\* no send begins while a call of the action before it is pending.
C20_OneCallInFlight ==
    inFlight.streamMessage + Len(inFlight.sendMessage) <= 1

----------------------------------------------------------------------------
(* Properties of applyEvents and the reducer (SpecEvents) *)

\* C29: from a character with 0 <= currentHP <= maxHP, every sequence of
\* GameEvents applied through applyEvents and the reducer leaves
\* 0 <= currentHP <= maxHP; a damage_taken or a healing that is zero or
\* negative dispatches nothing, and events that dispatch no action on hit
\* points leave currentHP as it was.
C29_HitPointsInRange ==
    /\ state.character.currentHP >= 0
    /\ state.character.currentHP <= state.character.maxHP
    /\ out.run =>
          /\ inp.events.damageTaken <= 0 => Count(dispatched, "TAKE_DAMAGE") = 0
          /\ inp.events.healing <= 0 => Count(dispatched, "HEAL") = 0
          /\ (\A k \in 1..Len(dispatched) :
                 dispatched[k].type
                    \notin {"TAKE_DAMAGE", "HEAL", "TAKE_REST", "ADD_EXP", "UPDATE_CHARACTER"})
                => state.character.currentHP = out.before.currentHP

\* damage of 50 on a character with hit points left: no hit points remain,
\* and none are owed
C29_Witness ==
    /\ out.run
    /\ inp.events.damageTaken = 50
    /\ dispatched = <<Action("TAKE_DAMAGE", 50)>>
    /\ out.before.currentHP > 0
    /\ out.before.currentHP < 50
    /\ state.character.currentHP = 0

----------------------------------------------------------------------------
(* Properties of a round of the loop (Spec) *)

\* the requestedRolls of the response that a step has just dispatched
RespondedRolls ==
    IF dispatched' # <<>> /\ dispatched'[1].type = "ADD_MESSAGE"
    THEN RequestedRollsOf(dispatched'[1].payload) ELSE <<>>

\* a step dispatches the hidden summary of a round
SummaryDispatched ==
    \E k \in 1..Len(dispatched') :
       /\ dispatched'[k].type = "ADD_MESSAGE"
       /\ dispatched'[k].payload.hidden
       /\ dispatched'[k].payload.content.template = "summary"

C30_LoadingFlagReset ==
    state.ui.isLoading ~>
       (pc = "idle" /\ ~state.ui.isLoading /\ ~stateRef.ui.isLoading)

\* the second user action is under way after the first one ended at the
\* chain limit
C30_Witness ==
    /\ sends = 2
    /\ pc = "sendToLLM"
    /\ state.ui.isLoading
    /\ \E i \in 1..Len(state.messages) :
          state.messages[i].content.template = ChainLimit.template

====
